---- MODULE Spec2Model ----
(***************************************************************************)
(* RLC circuit simulator: the simulation router (solve), the fixed-step    *)
(* RK4 integrator (solveODE), the state-space model registry (models),     *)
(* the topology table (circuitDefinitions) and the pole/stability          *)
(* analyzer (calculatePolesAndStability).                                  *)
(*                                                                         *)
(* JavaScript numbers are modelled as exact rationals n/d together with    *)
(* the IEEE special values NaN, +Infinity, -Infinity and the JavaScript    *)
(* value undefined.  Rounding of finite doubles and the sign of zero are   *)
(* not modelled.  Square roots, Math.exp and the dB / degree conversions   *)
(* are kept exact by carrying their argument symbolically.                 *)
(***************************************************************************)
EXTENDS Integers, Sequences, FiniteSets, TLC

VARIABLES pc, circuit, params, result, trace,
          app, definitions, timers, events, entered

\* The engine's call in progress, and the App component with its heap.
engineVars == <<pc, circuit, params, result, trace>>
appVars == <<app, definitions, timers, events, entered>>

vars == <<pc, circuit, params, result, trace, app, definitions, timers, events, entered>>

(***************************************************************************)
(* Numbers                                                                 *)
(***************************************************************************)
Abs(x) == IF x < 0 THEN -x ELSE x

RECURSIVE GCD(_, _)
GCD(a, b) == IF b = 0 THEN a ELSE GCD(b, a % b)

\* The finite number n/d in lowest terms with a positive denominator.
Fin(n, d) ==
  LET g == GCD(Abs(n), Abs(d))
      s == IF d < 0 THEN -1 ELSE 1
  IN  [k |-> "fin", n |-> (s * n) \div g, d |-> (s * d) \div g]

Int2Num(i) == [k |-> "fin", n |-> i, d |-> 1]
NaN == [k |-> "nan", n |-> 0, d |-> 1]
PosInf == [k |-> "inf", n |-> 1, d |-> 1]
NegInf == [k |-> "inf", n |-> -1, d |-> 1]
Undefined == [k |-> "undef", n |-> 0, d |-> 1]
Zero == Int2Num(0)
One == Int2Num(1)

\* JavaScript ToNumber on the values of the model: undefined becomes NaN.
ToNumber(x) == IF x.k = "undef" THEN NaN ELSE x

IsNaNNum(x) == ToNumber(x).k = "nan"
IsFinite(x) == x.k = "fin"
Sign(x) == IF x.n > 0 THEN 1 ELSE IF x.n < 0 THEN -1 ELSE 0
Inf(s) == IF s > 0 THEN PosInf ELSE NegInf

\* The global isNaN(v) of JavaScript.
isNaN(v) == IsNaNNum(v)

Neg(a) ==
  LET x == ToNumber(a)
  IN  IF x.k = "nan" THEN NaN ELSE [x EXCEPT !.n = -x.n]

Add(a, b) ==
  LET x == ToNumber(a)
      y == ToNumber(b)
  IN  IF x.k = "nan" \/ y.k = "nan" THEN NaN
      ELSE IF x.k = "inf" /\ y.k = "inf" THEN (IF x.n = y.n THEN x ELSE NaN)
      ELSE IF x.k = "inf" THEN x
      ELSE IF y.k = "inf" THEN y
      ELSE LET g == GCD(x.d, y.d)
           IN  Fin(x.n * (y.d \div g) + y.n * (x.d \div g), (x.d \div g) * y.d)

Sub(a, b) == Add(a, Neg(b))

Mul(a, b) ==
  LET x == ToNumber(a)
      y == ToNumber(b)
  IN  IF x.k = "nan" \/ y.k = "nan" THEN NaN
      ELSE IF x.k = "inf" \/ y.k = "inf"
           THEN (IF Sign(x) * Sign(y) = 0 THEN NaN ELSE Inf(Sign(x) * Sign(y)))
      ELSE LET g1 == GCD(Abs(x.n), y.d)
               g2 == GCD(Abs(y.n), x.d)
           IN  Fin((x.n \div g1) * (y.n \div g2), (x.d \div g2) * (y.d \div g1))

Div(a, b) ==
  LET x == ToNumber(a)
      y == ToNumber(b)
  IN  IF x.k = "nan" \/ y.k = "nan" THEN NaN
      ELSE IF x.k = "inf" /\ y.k = "inf" THEN NaN
      ELSE IF x.k = "inf" THEN Inf(x.n * (IF Sign(y) < 0 THEN -1 ELSE 1))
      ELSE IF y.k = "inf" THEN Zero
      ELSE IF y.n = 0 THEN (IF x.n = 0 THEN NaN ELSE Inf(Sign(x)))
      ELSE LET g1 == GCD(Abs(x.n), Abs(y.n))
               g2 == GCD(y.d, x.d)
           IN  Fin((x.n \div g1) * (y.d \div g2), (x.d \div g2) * (y.n \div g1))

\* a < b; false whenever an operand is NaN.
Lt(a, b) ==
  LET x == ToNumber(a)
      y == ToNumber(b)
  IN  IF x.k = "nan" \/ y.k = "nan" THEN FALSE
      ELSE IF x.k = "inf" /\ y.k = "inf" THEN x.n < y.n
      ELSE IF x.k = "inf" THEN x.n < 0
      ELSE IF y.k = "inf" THEN y.n > 0
      ELSE x.n * y.d < y.n * x.d

Gt(a, b) == Lt(b, a)

NumEq(a, b) ==
  LET x == ToNumber(a)
      y == ToNumber(b)
  IN  x.k # "nan" /\ y.k # "nan" /\ x = y

Le(a, b) == Lt(a, b) \/ NumEq(a, b)
Ge(a, b) == Le(b, a)

\* JavaScript truthiness of a number: 0, NaN and undefined are falsy.
Truthy(a) == LET x == ToNumber(a) IN x.k # "nan" /\ ~(x.k = "fin" /\ x.n = 0)

(***************************************************************************)
(* Model bounds and the argument values that are enumerated                *)
(***************************************************************************)
\* Number of samples of the time grid (solveODE's `points`, 1000 in the
\* source; the integration loop is the same for every count >= 2).
Points == 3

\* Number of samples of the frequency grid (generateFrequencyVector's
\* `points`, 500 in the source).
FreqPoints == 3

(***************************************************************************)
(* circuitDefinitions                                                      *)
(***************************************************************************)
TF_RC == "1 / (1 + sRC)"
TF_RL == "R / (R + sL)"
TF_RLC_VR == "(sRC) / (s^2LC + sRC + 1)"
TF_RLC_PAR == "sL / (s^2LC + sL/R + 1)"
TF_RLLC == "1 / (s^2*C*(L1+L2) + s*C*R + 1)"
TF_RLCC == "1 / (s^2*L*C_eq + s*R*C_eq + 1)"

ParamNames ==
  {"V", "V0", "I0", "R", "L", "C", "L1", "L2", "C1", "C2", "tEnd", "Freq"}

\* A parameter object holding the listed numbers; every other name is absent.
Obj(pairs) ==
  [nm \in ParamNames |->
     IF \E i \in DOMAIN pairs : pairs[i][1] = nm
     THEN (CHOOSE pr \in {pairs[i] : i \in DOMAIN pairs} : pr[1] = nm)[2]
     ELSE Undefined]

AllInputTypes == <<"Step", "Ramp", "Sine">>

circuitDefinitions ==
  [id \in {"1-rc-charge", "1-rl-energize", "2-rlc-series", "1-rc-discharge",
           "1-rl-deenergize", "2-rlc-parallel", "3-rllc-series", "3-rlcc-series"} |->
   CASE id = "1-rc-charge" ->
          [order |-> 1, params |-> <<"V", "R", "C">>,
           defaults |-> Obj(<< <<"V", Int2Num(10)>>, <<"R", Int2Num(1000)>>,
                               <<"C", Fin(1, 1000000)>>, <<"tEnd", Fin(5, 1000)>>,
                               <<"Freq", Int2Num(1000)>> >>),
           inputType |-> AllInputTypes, solver |-> "solveRcCharge",
           metrics |-> <<"riseTime", "settlingTime">>,
           transferFunction |-> TF_RC,
           plots |-> << <<"Vc">>, <<"i">> >>]
     [] id = "1-rl-energize" ->
          [order |-> 1, params |-> <<"V", "R", "L">>,
           defaults |-> Obj(<< <<"V", Int2Num(10)>>, <<"R", Int2Num(10)>>,
                               <<"L", Fin(1, 100)>>, <<"tEnd", Fin(5, 1000)>>,
                               <<"Freq", Int2Num(1000)>> >>),
           inputType |-> AllInputTypes, solver |-> "solveRlEnergize",
           metrics |-> <<"riseTime", "settlingTime">>,
           transferFunction |-> TF_RL,
           plots |-> << <<"iL">>, <<"Vl">> >>]
     [] id = "2-rlc-series" ->
          [order |-> 2, params |-> <<"V", "R", "L", "C">>,
           defaults |-> Obj(<< <<"V", Int2Num(10)>>, <<"R", Int2Num(50)>>,
                               <<"L", Fin(1, 100)>>, <<"C", Fin(1, 1000000)>>,
                               <<"tEnd", Fin(1, 100)>>, <<"Freq", Int2Num(1000)>> >>),
           inputType |-> AllInputTypes, solver |-> "solveRlcSeries",
           metrics |-> <<"riseTime", "settlingTime", "overshoot", "peakTime", "peakValue">>,
           transferFunction |-> TF_RLC_VR,
           plots |-> << <<"Vc", "i">>, <<"Vr", "Vl">> >>]
     [] id = "1-rc-discharge" ->
          [order |-> 1, params |-> <<"V0", "R", "C">>,
           defaults |-> Obj(<< <<"V0", Int2Num(10)>>, <<"R", Int2Num(1000)>>,
                               <<"C", Fin(1, 1000000)>>, <<"tEnd", Fin(5, 1000)>>,
                               <<"Freq", Int2Num(1000)>> >>),
           inputType |-> <<"Step">>, solver |-> "solveRcDischarge",
           metrics |-> <<"settlingTime">>,
           transferFunction |-> TF_RC,
           plots |-> << <<"Vc">>, <<"i">> >>]
     [] id = "1-rl-deenergize" ->
          [order |-> 1, params |-> <<"I0", "R", "L">>,
           defaults |-> Obj(<< <<"I0", Int2Num(1)>>, <<"R", Int2Num(10)>>,
                               <<"L", Fin(1, 100)>>, <<"tEnd", Fin(5, 1000)>>,
                               <<"Freq", Int2Num(1000)>> >>),
           inputType |-> <<"Step">>, solver |-> "solveRlDeEnergize",
           metrics |-> <<"settlingTime">>,
           transferFunction |-> TF_RL,
           plots |-> << <<"iL">>, <<"Vr">> >>]
     [] id = "2-rlc-parallel" ->
          [order |-> 2, params |-> <<"V", "R", "L", "C">>,
           defaults |-> Obj(<< <<"V", Int2Num(1)>>, <<"R", Int2Num(50)>>,
                               <<"L", Fin(1, 100)>>, <<"C", Fin(1, 100000)>>,
                               <<"tEnd", Fin(5, 100)>>, <<"Freq", Int2Num(1000)>> >>),
           inputType |-> AllInputTypes, solver |-> "solveRlcParallel",
           metrics |-> <<"riseTime", "settlingTime", "overshoot", "peakTime", "peakValue">>,
           transferFunction |-> TF_RLC_PAR,
           plots |-> << <<"Vc">>, <<"iL", "iC", "iR">> >>]
     [] id = "3-rllc-series" ->
          [order |-> 3, params |-> <<"V", "R", "L1", "L2", "C">>,
           defaults |-> Obj(<< <<"V", Int2Num(10)>>, <<"R", Int2Num(10)>>,
                               <<"L1", Fin(1, 100)>>, <<"L2", Fin(1, 100)>>,
                               <<"C", Fin(1, 10000)>>, <<"tEnd", Fin(5, 100)>>,
                               <<"Freq", Int2Num(1000)>> >>),
           inputType |-> AllInputTypes, solver |-> "solveRllcSeries",
           metrics |-> <<"riseTime", "settlingTime", "overshoot">>,
           transferFunction |-> TF_RLLC,
           plots |-> << <<"Vc", "i">>, <<"Vl_total">> >>]
     [] id = "3-rlcc-series" ->
          [order |-> 3, params |-> <<"V", "R", "L", "C1", "C2">>,
           defaults |-> Obj(<< <<"V", Int2Num(10)>>, <<"R", Int2Num(10)>>,
                               <<"L", Fin(1, 100)>>, <<"C1", Fin(1, 10000)>>,
                               <<"C2", Fin(1, 10000)>>, <<"tEnd", Fin(5, 100)>>,
                               <<"Freq", Int2Num(1000)>> >>),
           inputType |-> AllInputTypes, solver |-> "solve3RlccSeries",
           metrics |-> <<"riseTime", "settlingTime", "overshoot">>,
           transferFunction |-> TF_RLCC,
           plots |-> << <<"i">>, <<"Vc_total">> >>]]

\* App.js currentCircuit: the definition together with its identifier.
CurrentCircuit(id) ==
  [id |-> id,
   order |-> circuitDefinitions[id].order,
   params |-> circuitDefinitions[id].params,
   solver |-> circuitDefinitions[id].solver,
   transferFunction |-> circuitDefinitions[id].transferFunction]

\* The characters of an identifier, for String.prototype.includes.
Chars(id) ==
  CASE id = "1-rc-charge" -> <<"1","-","r","c","-","c","h","a","r","g","e">>
    [] id = "1-rl-energize" -> <<"1","-","r","l","-","e","n","e","r","g","i","z","e">>
    [] id = "2-rlc-series" -> <<"2","-","r","l","c","-","s","e","r","i","e","s">>
    [] id = "1-rc-discharge" -> <<"1","-","r","c","-","d","i","s","c","h","a","r","g","e">>
    [] id = "1-rl-deenergize" -> <<"1","-","r","l","-","d","e","e","n","e","r","g","i","z","e">>
    [] id = "2-rlc-parallel" -> <<"2","-","r","l","c","-","p","a","r","a","l","l","e","l">>
    [] id = "3-rllc-series" -> <<"3","-","r","l","l","c","-","s","e","r","i","e","s">>
    [] id = "3-rlcc-series" -> <<"3","-","r","l","c","c","-","s","e","r","i","e","s">>
    [] id = "2-rl-parallel" -> <<"2","-","r","l","-","p","a","r","a","l","l","e","l">>
    [] id = "rc-charge" -> <<"r","c","-","c","h","a","r","g","e">>
    [] id = "rl-energize" -> <<"r","l","-","e","n","e","r","g","i","z","e">>
    [] id = "rlc-series" -> <<"r","l","c","-","s","e","r","i","e","s">>
    [] id = "rllc-series" -> <<"r","l","l","c","-","s","e","r","i","e","s">>
    [] id = "rlcc-series" -> <<"r","l","c","c","-","s","e","r","i","e","s">>
    [] id = "rlc-parallel" -> <<"r","l","c","-","p","a","r","a","l","l","e","l">>
    [] id = "discharge" -> <<"d","i","s","c","h","a","r","g","e">>
    [] id = "deenergize" -> <<"d","e","e","n","e","r","g","i","z","e">>
    [] id = "rc" -> <<"r","c">>

\* id.includes(sub)
Includes(id, sub) ==
  LET s == Chars(id)
      u == Chars(sub)
  IN  \E i \in 1..Len(s) :
        i + Len(u) - 1 <= Len(s) /\ SubSeq(s, i, i + Len(u) - 1) = u

(***************************************************************************)
(* stateSpaceModels.js                                                     *)
(***************************************************************************)
\* Math.sin(2*Math.PI*x) for x a number of quarter turns; the enumerated
\* Freq and time values keep Freq*t on that grid.
Sin2Pi(x) ==
  LET y == ToNumber(x)
  IN  IF y.k # "fin" THEN NaN
      ELSE CASE y.d \in {1, 2} -> Zero
             [] y.d = 4 -> (IF y.n % 4 = 1 THEN One ELSE Int2Num(-1))

\* coef * Math.exp(arg); a finite non-zero exponent is carried symbolically.
ExpTerm(coef, arg) ==
  LET c == ToNumber(coef)
      a == ToNumber(arg)
  IN  IF a.k = "nan" THEN NaN
      ELSE IF a.k = "inf" THEN Mul(c, IF a.n > 0 THEN PosInf ELSE Zero)
      ELSE IF a.n = 0 \/ c.k # "fin" \/ c.n = 0 THEN Mul(c, One)
      ELSE [k |-> "exp", n |-> c.n, d |-> c.d, an |-> a.n, ad |-> a.d]

\* params[name]
P(prm, name) == prm.num[name]

getVin(t, prm) ==
  LET V == P(prm, "V")
      Freq == P(prm, "Freq")
  IN  CASE prm.inputType = "Step" -> (IF Ge(t, Zero) THEN ToNumber(V) ELSE Zero)
        [] prm.inputType = "Sine" ->
             (IF Ge(t, Zero) THEN Mul(V, Sin2Pi(Mul(Freq, t))) ELSE Zero)
        [] prm.inputType = "Ramp" -> (IF Ge(t, Zero) THEN Mul(V, t) ELSE Zero)
        [] OTHER -> Zero

rcOde(t, state, prm) ==
  LET Vc == state[1]
      Vin == getVin(t, prm)
  IN  << Div(Sub(Vin, Vc), Mul(P(prm, "R"), P(prm, "C"))) >>

rlOde(t, state, prm) ==
  LET iL == state[1]
      Vin == getVin(t, prm)
  IN  << Div(Sub(Vin, Mul(iL, P(prm, "R"))), P(prm, "L")) >>

rlcOde(t, state, prm) ==
  LET Vc == state[1]
      iL == state[2]
      Vin == getVin(t, prm)
  IN  << Div(iL, P(prm, "C")),
         Div(Sub(Sub(Vin, Vc), Mul(iL, P(prm, "R"))), P(prm, "L")) >>

rllcOde(t, state, prm) ==
  LET L_eq == Add(P(prm, "L1"), P(prm, "L2"))
  IN  rlcOde(t, state, [prm EXCEPT !.num["L"] = L_eq])

rlccOde(t, state, prm) ==
  LET iL == state[1]
      Vc1 == state[2]
      Vc2 == state[3]
      Vin == getVin(t, prm)
  IN  << Div(Sub(Sub(Sub(Vin, Vc1), Vc2), Mul(iL, P(prm, "R"))), P(prm, "L")),
         Div(iL, P(prm, "C1")),
         Div(iL, P(prm, "C2")) >>

rlcParallelOde(t, state, prm) ==
  LET Vc == state[1]
      iL == state[2]
      I_in == getVin(t, prm)
  IN  << Div(Sub(Sub(I_in, Div(Vc, P(prm, "R"))), iL), P(prm, "C")),
         Div(Vc, P(prm, "L")) >>

\* The registry: solver key -> derivative function and initial state.
models ==
  [key \in {"solveRcCharge", "solveRcDischarge", "solveRlEnergize",
            "solveRlDeEnergize", "solveRlcSeries", "solveRllcSeries",
            "solve3RlccSeries", "solveRlcParallel"} |->
   CASE key = "solveRcCharge" -> [func |-> "rcOde", initialState |-> "[0]"]
     [] key = "solveRcDischarge" -> [func |-> "rcOde", initialState |-> "(p) => [p.V0]"]
     [] key = "solveRlEnergize" -> [func |-> "rlOde", initialState |-> "[0]"]
     [] key = "solveRlDeEnergize" -> [func |-> "rlOde", initialState |-> "(p) => [p.I0]"]
     [] key = "solveRlcSeries" -> [func |-> "rlcOde", initialState |-> "[0, 0]"]
     [] key = "solveRllcSeries" -> [func |-> "rllcOde", initialState |-> "[0, 0]"]
     [] key = "solve3RlccSeries" -> [func |-> "rlccOde", initialState |-> "[0, 0, 0]"]
     [] key = "solveRlcParallel" -> [func |-> "rlcParallelOde", initialState |-> "[0, 0]"]]

\* odeFunc(t, state, params) for a registered derivative function.
CallOde(func, t, state, prm) ==
  CASE func = "rcOde" -> rcOde(t, state, prm)
    [] func = "rlOde" -> rlOde(t, state, prm)
    [] func = "rlcOde" -> rlcOde(t, state, prm)
    [] func = "rllcOde" -> rllcOde(t, state, prm)
    [] func = "rlccOde" -> rlccOde(t, state, prm)
    [] func = "rlcParallelOde" -> rlcParallelOde(t, state, prm)

\* model.initialState, called with params when it is a function.
InitialState(model, prm) ==
  CASE model.initialState = "[0]" -> <<Zero>>
    [] model.initialState = "[0, 0]" -> <<Zero, Zero>>
    [] model.initialState = "[0, 0, 0]" -> <<Zero, Zero, Zero>>
    [] model.initialState = "(p) => [p.V0]" -> <<P(prm, "V0")>>
    [] model.initialState = "(p) => [p.I0]" -> <<P(prm, "I0")>>

(***************************************************************************)
(* numericalSolver.js                                                      *)
(***************************************************************************)
Half == Fin(1, 2)

\* a.map((val, i) => val + b[i] * scale)
add(a, b, scale) == [i \in DOMAIN a |-> Add(a[i], Mul(b[i], scale))]

\* Mutation of RK4Step: the forward Euler step, cur + dt * k1.
EulerStep(func, t, cur, prm, dt) ==
  [j \in DOMAIN cur |-> Add(cur[j], Mul(dt, CallOde(func, t, cur, prm)[j]))]

\* One pass of the loop body: the state after one RK4 step from (t, cur).
\* Each `const k = odeFunc(...)` is evaluated once and bound to its value.
RK4Step(func, t, cur, prm, dt) ==
  LET nextState(k1, k2, k3, k4) ==
        [j \in DOMAIN cur |->
           Add(cur[j],
               Mul(Div(dt, Int2Num(6)),
                   Add(Add(Add(k1[j], Mul(Int2Num(2), k2[j])),
                           Mul(Int2Num(2), k3[j])), k4[j])))]
      afterK3(k1, k2, k3) ==
        CHOOSE r \in {nextState(k1, k2, k3, k4) :
                        k4 \in {CallOde(func, Add(t, dt), add(cur, k3, dt), prm)}} : TRUE
      afterK2(k1, k2) ==
        CHOOSE r \in {afterK3(k1, k2, k3) :
                        k3 \in {CallOde(func, Add(t, Mul(Half, dt)),
                                        add(cur, k2, Mul(Half, dt)), prm)}} : TRUE
      afterK1(k1) ==
        CHOOSE r \in {afterK2(k1, k2) :
                        k2 \in {CallOde(func, Add(t, Mul(Half, dt)),
                                        add(cur, k1, Mul(Half, dt)), prm)}} : TRUE
  IN  CHOOSE r \in {afterK1(k1) : k1 \in {CallOde(func, t, cur, prm)}} : TRUE

\* The loop `for (let i = 1; i < points; i++)`: time and states so far.
RECURSIVE RK4Loop(_, _, _, _, _, _, _, _)
RK4Loop(func, prm, dt, points, i, t, time, states) ==
  IF i >= points THEN [time |-> time, states |-> states]
  ELSE LET nextState == RK4Step(func, t, states[Len(states)], prm, dt)
           tNext == Add(t, dt)
       IN  RK4Loop(func, prm, dt, points, i + 1, tNext,
                   Append(time, tNext), Append(states, nextState))

YName == <<"y0", "y1", "y2">>

\* Mutation of Results: each y<j> repeats its last sample once more.
ResultsExtraSample(run, n) ==
  [f \in {"time"} \cup {YName[j] : j \in 1..n} |->
     IF f = "time" THEN run.time
     ELSE LET j == CHOOSE jj \in 1..n : YName[jj] = f
          IN  [i \in 1..(Len(run.states) + 1) |->
                 IF i <= Len(run.states) THEN run.states[i][j]
                 ELSE run.states[Len(run.states)][j]]]

\* The results object: `time` and one array y<j> per state variable.
Results(run, n) ==
  [f \in {"time"} \cup {YName[j] : j \in 1..n} |->
     IF f = "time" THEN run.time
     ELSE LET j == CHOOSE jj \in 1..n : YName[jj] = f
          IN  [i \in 1..Len(run.states) |-> run.states[i][j]]]

solveODE(func, initialState, prm, tStart, tEnd, points) ==
  LET dt == Div(Sub(tEnd, tStart), Int2Num(points - 1))
  IN  CHOOSE r \in {Results(run, Len(initialState)) :
                      run \in {RK4Loop(func, prm, dt, points, 1, tStart,
                                       <<tStart>>, <<initialState>>)}} : TRUE

(***************************************************************************)
(* Square roots, kept exact: a Surd p + q*sqrt(x) has a number p (which    *)
(* carries NaN and the infinities), a finite q and a finite x >= 0; q and  *)
(* x are zero unless x is a positive non-square.                           *)
(***************************************************************************)
RECURSIVE ISqrtFrom(_, _)
ISqrtFrom(n, r) == IF (r + 1) * (r + 1) > n THEN r ELSE ISqrtFrom(n, r + 1)

\* The integer square root of n >= 0.
ISqrt(n) == ISqrtFrom(n, 0)
IsSquare(n) == n >= 0 /\ ISqrt(n) * ISqrt(n) = n

S(p) == [p |-> ToNumber(p), q |-> Zero, x |-> Zero]

\* Math.sqrt
Sqrt(a) ==
  LET v == ToNumber(a)
  IN  IF v.k = "nan" THEN S(NaN)
      ELSE IF v.k = "inf" THEN (IF v.n > 0 THEN S(PosInf) ELSE S(NaN))
      ELSE IF v.n < 0 THEN S(NaN)
      ELSE IF IsSquare(v.n) /\ IsSquare(v.d) THEN S(Fin(ISqrt(v.n), ISqrt(v.d)))
      ELSE [p |-> Zero, q |-> One, x |-> v]

IsRational(s) == s.q.n = 0

\* The sign of an irrational Surd, from its norm p^2 - q^2 x.
SNormValue(s) == Sub(Mul(s.p, s.p), Mul(Mul(s.q, s.q), s.x))
SSign(s) ==
  IF IsRational(s) THEN Sign(s.p)
  ELSE IF Sign(SNormValue(s)) < 0 THEN Sign(s.q) ELSE Sign(s.p)

\* Surd + number, Surd * number, Surd / number, -Surd.
SNorm(s) ==
  IF s.p.k # "fin" \/ s.q.n = 0 THEN [p |-> s.p, q |-> Zero, x |-> Zero] ELSE s

SAddNum(s, a) == SNorm([s EXCEPT !.p = Add(s.p, a)])

SMulNum(s, a) ==
  LET v == ToNumber(a)
  IN  IF v.k = "fin"
      THEN SNorm([s EXCEPT !.p = Mul(s.p, v), !.q = Mul(s.q, v)])
      ELSE IF IsRational(s) THEN S(Mul(s.p, v))
      ELSE S(Mul(v, Int2Num(SSign(s))))

SDivNum(s, a) ==
  LET v == ToNumber(a)
  IN  IF v.k = "fin" /\ v.n # 0 THEN SMulNum(s, Div(One, v))
      ELSE IF IsRational(s) THEN S(Div(s.p, v))
      ELSE IF v.k = "inf" THEN S(Zero)
      ELSE IF v.k = "nan" THEN S(NaN)
      ELSE S(Inf(SSign(s)))

SNeg(s) == [p |-> Neg(s.p), q |-> Neg(s.q), x |-> s.x]

\* number / Surd, for a Surd that is rational or a pure root q*sqrt(x).
NumDivS(a, s) ==
  IF IsRational(s) THEN S(Div(a, s.p))
  ELSE CASE s.p.n = 0 ->
         LET v == ToNumber(a)
         IN  IF v.k = "fin"
             THEN SNorm([p |-> Zero, q |-> Div(v, Mul(s.q, s.x)), x |-> s.x])
             ELSE S(Mul(v, Int2Num(Sign(s.q))))

\* Surd / Surd for rational or pure-root operands over the same root.
SDiv(s, u) ==
  IF IsRational(u) THEN SDivNum(s, u.p)
  ELSE IF IsRational(s) THEN NumDivS(s.p, u)
  ELSE CASE s.p.n = 0 /\ u.p.n = 0 /\ s.x = u.x -> S(Div(s.q, u.q))

\* Sum and product of two Surds over the same root.
SAdd(s, u) ==
  IF IsRational(s) THEN SAddNum(u, s.p)
  ELSE IF IsRational(u) THEN SAddNum(s, u.p)
  ELSE SNorm([p |-> Add(s.p, u.p), q |-> Add(s.q, u.q), x |-> s.x])

SMul(s, u) ==
  IF IsRational(s) THEN SMulNum(u, s.p)
  ELSE IF IsRational(u) THEN SMulNum(s, u.p)
  ELSE SNorm([p |-> Add(Mul(s.p, u.p), Mul(Mul(s.q, u.q), s.x)),
              q |-> Add(Mul(s.p, u.q), Mul(s.q, u.p)),
              x |-> s.x])

\* The tolerance `tol = 1e-9` of the stability check, as 1 / TolDen.
TolDen == 1000000000
tol == Fin(1, TolDen)

\* a > 1e-9 for a number, without forming products with TolDen.
NumGtTol(a) ==
  LET v == ToNumber(a)
  IN  IF v.k = "nan" THEN FALSE
      ELSE IF v.k = "inf" THEN v.n > 0
      ELSE v.n > 0 /\ TolDen > v.d \div v.n

\* a >= 1e-9 for a number.
NumGeTol(a) == NumGtTol(a) \/ ToNumber(a) = tol

\* An irrational Surd s with |norm| / (1 + 2|q|(1 + x)) > 1e-9 has |s| > 1e-9,
\* because |s| <= 1e-9 would give |norm| = |s||conj| <= 1e-9 (1e-9 + 2|q|sqrt(x)).
SFarFromZero(s) ==
  NumGtTol(Div([SNormValue(s) EXCEPT !.n = Abs(@)],
               Add(One, Mul(Mul(Int2Num(2), [s.q EXCEPT !.n = Abs(@)]),
                            Add(One, s.x)))))

\* s > 1e-9, s < -1e-9, |s| <= 1e-9, |s| < 1e-9 for a Surd.
SGtTol(s) ==
  IF IsRational(s) THEN NumGtTol(s.p)
  ELSE CASE SFarFromZero(s) -> SSign(s) > 0

SLtNegTol(s) ==
  IF IsRational(s) THEN NumGtTol(Neg(s.p))
  ELSE CASE SFarFromZero(s) -> SSign(s) < 0

SAbsLeTol(s) ==
  IF IsRational(s) THEN s.p.k = "fin" /\ ~NumGtTol(s.p) /\ ~NumGtTol(Neg(s.p))
  ELSE CASE SFarFromZero(s) -> FALSE

SAbsLtTol(s) ==
  IF IsRational(s) THEN s.p.k = "fin" /\ ~NumGeTol(s.p) /\ ~NumGeTol(Neg(s.p))
  ELSE CASE SFarFromZero(s) -> FALSE

\* s > 1 and s = 1 for a Surd that is rational or a pure root q*sqrt(x), q > 0.
SGtOne(s) ==
  IF IsRational(s) THEN Gt(s.p, One)
  ELSE IF s.q.n > 0 THEN Gt(Mul(Mul(s.q, s.q), s.x), One) ELSE FALSE

SEqOne(s) == IsRational(s) /\ NumEq(s.p, One)

(***************************************************************************)
(* solver.js: calculatePolesAndStability                                   *)
(***************************************************************************)
Null == [isNull |-> TRUE]

\* A JavaScript array held in a field that may also be null.
Arr(items) == [isNull |-> FALSE, items |-> items]

Pole(re, im) == [re |-> re, im |-> im]

\* Mutation of QuadraticRoots: the second real root takes +sqrt(disc) as well.
QuadraticRootsSameSign(b, c) ==
  LET disc == Sub(Mul(b, b), Mul(Int2Num(4), c))
  IN  IF Ge(disc, Zero)
      THEN LET r1 == SDivNum(SAddNum(Sqrt(disc), Neg(b)), Int2Num(2))
           IN  << Pole(r1, S(Zero)), Pole(r1, S(Zero)) >>
      ELSE LET realPart == S(Div(Neg(b), Int2Num(2)))
               imagPart == SDivNum(Sqrt(Neg(disc)), Int2Num(2))
           IN  << Pole(realPart, imagPart), Pole(realPart, SNeg(imagPart)) >>

\* The roots of s^2 + b s + c by the quadratic formula, as the code takes them.
QuadraticRoots(b, c) ==
  LET disc == Sub(Mul(b, b), Mul(Int2Num(4), c))
  IN  IF Ge(disc, Zero)
      THEN LET r1 == SDivNum(SAddNum(Sqrt(disc), Neg(b)), Int2Num(2))
               r2 == SDivNum(SAddNum(SNeg(Sqrt(disc)), Neg(b)), Int2Num(2))
           IN  << Pole(r1, S(Zero)), Pole(r2, S(Zero)) >>
      ELSE LET realPart == S(Div(Neg(b), Int2Num(2)))
               imagPart == SDivNum(Sqrt(Neg(disc)), Int2Num(2))
           IN  << Pole(realPart, imagPart), Pole(realPart, SNeg(imagPart)) >>

Verdict(status, details) == [status |-> status, details |-> details]

\* imagAxisPoles.length > 1 && (|im0 - im1| < tol || |im0 + im1| < tol)
IsRepeated(imagAxisPoles) ==
  Len(imagAxisPoles) > 1
  /\ (\/ SAbsLtTol(SAdd(imagAxisPoles[1].im, SNeg(imagAxisPoles[2].im)))
      \/ SAbsLtTol(SAdd(imagAxisPoles[1].im, imagAxisPoles[2].im)))

\* The "Assess stability" part: the verdict for a list of roots.
AssessStability(roots) ==
  IF \E i \in DOMAIN roots : SGtTol(roots[i].re)
  THEN Verdict("Unstable", "At least one pole with Re(p) > 0.")
  ELSE LET imagAxisPoles == SelectSeq(roots, LAMBDA pl : SAbsLeTol(pl.re))
       IN  IF Len(imagAxisPoles) > 0
           THEN (IF IsRepeated(imagAxisPoles)
                 THEN Verdict("Unstable", "Repeated poles on imaginary axis.")
                 ELSE Verdict("Marginally Stable",
                              "Simple poles on imaginary axis (oscillatory)."))
           ELSE Verdict("Stable", "All poles Re(p) < 0.")

calculatePolesAndStability(R, L, C) ==
  IF ~Truthy(L) \/ ~Truthy(C) \/ Le(L, Zero) \/ Le(C, Zero)
  THEN [poles |-> <<>>,
        stabilityStatus |-> Verdict("N/A", "L or C is zero or negative.")]
  ELSE LET b == Div(R, L)
           c == Div(One, Mul(L, C))
       IN  CHOOSE r \in {[poles |-> roots, stabilityStatus |-> AssessStability(roots)] :
                           roots \in {QuadraticRoots(b, c)}} : TRUE

(***************************************************************************)
(* solver.js: generateFrequencyVector and solveFrequencyResponse.          *)
(* A quantity that depends on the angular frequency w = 2*pi*f is kept as  *)
(* a polynomial in w with rational coefficients (w is transcendental over  *)
(* the rationals, so such a polynomial vanishes at w only when it is the   *)
(* zero polynomial), or as NaN / an infinity / "amb" (not finite, NaN or   *)
(* an infinity depending on w).                                            *)
(***************************************************************************)
RECURSIVE Trim(_)
Trim(c) ==
  IF Len(c) = 0 THEN c
  ELSE IF c[Len(c)].n = 0 THEN Trim(SubSeq(c, 1, Len(c) - 1)) ELSE c

GPoly(c) == [k |-> "poly", c |-> Trim(c), s |-> 0, dn |-> <<>>]
GNaN == [k |-> "nan", c |-> <<>>, s |-> 0, dn |-> <<>>]
GInf(sg) == [k |-> "inf", c |-> <<>>, s |-> sg, dn |-> <<>>]
GAmb == [k |-> "amb", c |-> <<>>, s |-> 0, dn |-> <<>>]
GRat(num, den) == [k |-> "rat", c |-> num, s |-> 0, dn |-> den]
GZero == GPoly(<<>>)

\* A number as a quantity that does not depend on w.
GConst(a) ==
  LET v == ToNumber(a)
  IN  IF v.k = "nan" THEN GNaN
      ELSE IF v.k = "inf" THEN GInf(v.n)
      ELSE GPoly(<<v>>)

\* Sign of a polynomial at every w > 0: 0, 1, -1, or 2 when it depends on w.
PolySign(c) ==
  IF Len(c) = 0 THEN 0
  ELSE IF \A i \in DOMAIN c : c[i].n >= 0 THEN 1
  ELSE IF \A i \in DOMAIN c : c[i].n <= 0 THEN -1
  ELSE 2

Coef(c, i) == IF i \in DOMAIN c THEN c[i] ELSE Zero

PolyAdd(a, b) ==
  [i \in 1..(IF Len(a) > Len(b) THEN Len(a) ELSE Len(b)) |-> Add(Coef(a, i), Coef(b, i))]

RECURSIVE ConvSum(_, _, _, _)
ConvSum(a, b, k, i) ==
  IF i > k THEN Zero
  ELSE Add(Mul(Coef(a, i), Coef(b, k + 1 - i)), ConvSum(a, b, k, i + 1))

PolyMul(a, b) ==
  IF Len(a) = 0 \/ Len(b) = 0 THEN <<>>
  ELSE [k \in 1..(Len(a) + Len(b) - 1) |-> ConvSum(a, b, k, 1)]

GNeg(a) ==
  IF a.k = "poly" THEN GPoly([i \in DOMAIN a.c |-> Neg(a.c[i])])
  ELSE IF a.k = "inf" THEN GInf(-a.s)
  ELSE a

GAdd(a, b) ==
  IF a.k = "nan" \/ b.k = "nan" THEN GNaN
  ELSE IF a.k = "amb" \/ b.k = "amb" THEN GAmb
  ELSE IF a.k = "inf" /\ b.k = "inf" THEN (IF a.s = b.s THEN a ELSE GNaN)
  ELSE IF a.k = "inf" THEN a
  ELSE IF b.k = "inf" THEN b
  ELSE GPoly(PolyAdd(a.c, b.c))

GInfTimes(sg, c) ==
  CASE PolySign(c) = 0 -> GNaN
    [] PolySign(c) = 2 -> GAmb
    [] OTHER -> GInf(sg * PolySign(c))

GMul(a, b) ==
  IF a.k = "nan" \/ b.k = "nan" THEN GNaN
  ELSE IF a.k = "amb" \/ b.k = "amb" THEN GAmb
  ELSE IF a.k = "inf" /\ b.k = "inf" THEN GInf(a.s * b.s)
  ELSE IF a.k = "inf" THEN GInfTimes(a.s, b.c)
  ELSE IF b.k = "inf" THEN GInfTimes(b.s, a.c)
  ELSE GPoly(PolyMul(a.c, b.c))

GDiv(a, b) ==
  IF a.k = "nan" \/ b.k = "nan" THEN GNaN
  ELSE IF a.k = "amb" \/ b.k = "amb" THEN GAmb
  ELSE IF a.k = "inf" /\ b.k = "inf" THEN GNaN
  ELSE IF a.k = "inf"
       THEN (CASE PolySign(b.c) = 2 -> GAmb
               [] PolySign(b.c) = -1 -> GInf(-a.s)
               [] OTHER -> a)
  ELSE IF b.k = "inf" THEN GZero
  ELSE IF Len(b.c) = 0
       THEN (CASE PolySign(a.c) = 0 -> GNaN
               [] PolySign(a.c) = 2 -> GAmb
               [] OTHER -> GInf(PolySign(a.c)))
  ELSE IF Len(a.c) = 0 THEN GZero
  ELSE GRat(a.c, b.c)

IsGZero(a) == a.k = "poly" /\ Len(a.c) = 0

\* w and w**2
Omega == GPoly(<<Zero, One>>)
OmegaSq == GPoly(<<Zero, Zero, One>>)

cAdd(a, b) == << GAdd(a[1], b[1]), GAdd(a[2], b[2]) >>

cDivOf(a, b) ==
  LET ar == a[1]
      ai == a[2]
      br == b[1]
      bi == b[2]
      den == GAdd(GMul(br, br), GMul(bi, bi))
  IN  IF IsGZero(den) THEN << GZero, GZero >>
      ELSE << GDiv(GAdd(GMul(ar, br), GMul(ai, bi)), den),
              GDiv(GAdd(GMul(ai, br), GNeg(GMul(ar, bi))), den) >>

\* cDiv(a, b), each operand taken as a value.
cDiv(a, b) == CHOOSE r \in {cDivOf(x, y) : x \in {a}, y \in {b}} : TRUE

\* mag[i] = 20 * Math.log10(cMag(H)) at frequency f.
MagDb(H, f) ==
  IF H[1].k = "nan" \/ H[2].k = "nan" THEN NaN
  ELSE IF H[1].k = "amb" \/ H[2].k = "amb" THEN [k |-> "amb", n |-> 0, d |-> 1]
  ELSE IF H[1].k = "inf" \/ H[2].k = "inf" THEN PosInf
  ELSE IF IsGZero(H[1]) /\ IsGZero(H[2]) THEN NegInf
  ELSE [k |-> "dB", H |-> H, f |-> f]

\* phase[i] = cPhase(H) * 180 / Math.PI at frequency f.
PhaseDeg(H, f) ==
  IF H[1].k = "nan" \/ H[2].k = "nan" THEN NaN
  ELSE IF H[1].k = "amb" \/ H[2].k = "amb" THEN [k |-> "amb", n |-> 0, d |-> 1]
  ELSE IF IsGZero(H[2]) /\ (IsGZero(H[1]) \/ (H[1].k = "inf" /\ H[1].s > 0)
                            \/ (H[1].k \in {"poly", "rat"} /\ PolySign(H[1].c) = 1
                                /\ PolySign(H[1].dn) \in {0, 1}))
       THEN Zero
  ELSE [k |-> "deg", H |-> H, f |-> f]

\* Defaults of generateFrequencyVector(fMin = 1, fMax = 1e6, points = 500).
FMin == 1
FMax == 1000000

RECURSIVE Log10Int(_)
\* Math.log10 of a power of ten.
Log10Int(x) == IF x = 1 THEN 0 ELSE 1 + Log10Int(x \div 10)

RECURSIVE Pow10Int(_)
Pow10Int(e) == IF e = 0 THEN 1 ELSE 10 * Pow10Int(e - 1)

\* Math.pow(10, e): exact for a small natural exponent, else symbolic.
Pow10(e) ==
  IF e.k = "fin" /\ e.d = 1 /\ e.n >= 0 /\ e.n <= 9 THEN Int2Num(Pow10Int(e.n))
  ELSE [k |-> "pow10", n |-> e.n, d |-> e.d]

\* Mutation of generateFrequencyVector: the step divides by points, so the
\* last entry falls short of fMax.
generateFrequencyVectorOpenEnd(fMin, fMax, points) ==
  LET logMin == Int2Num(Log10Int(fMin))
      logMax == Int2Num(Log10Int(fMax))
      logStep == Div(Sub(logMax, logMin), Int2Num(points))
  IN  [i \in 1..points |-> Pow10(Add(logMin, Mul(Int2Num(i - 1), logStep)))]

generateFrequencyVector(fMin, fMax, points) ==
  LET logMin == Int2Num(Log10Int(fMin))
      logMax == Int2Num(Log10Int(fMax))
      logStep == Div(Sub(logMax, logMin), Int2Num(points - 1))
  IN  [i \in 1..points |-> Pow10(Add(logMin, Mul(Int2Num(i - 1), logStep)))]

\* H(jw) of the transfer-function tag, or "default" for an unmatched tag.
TransferH(tag, prm) ==
  LET R == GConst(P(prm, "R"))
      L == GConst(P(prm, "L"))
      C == GConst(P(prm, "C"))
      one == GConst(One)
  IN  CASE tag = TF_RC ->
             cDiv(<<one, GZero>>, <<one, GMul(GMul(Omega, R), C)>>)
        [] tag = TF_RL ->
             cDiv(<<R, GZero>>, <<R, GMul(Omega, L)>>)
        [] tag = TF_RLC_VR ->
             LET s_sq_LC == << GMul(GMul(GMul(GConst(Int2Num(-1)), OmegaSq), L), C), GZero >>
                 s_RC == << GZero, GMul(GMul(Omega, R), C) >>
                 H_den == cAdd(cAdd(s_sq_LC, s_RC), <<one, GZero>>)
             IN  cDiv(s_RC, H_den)
        [] tag = TF_RLC_PAR ->
             cDiv(<< GZero, GMul(Omega, L) >>,
                  << GAdd(one, GNeg(GMul(GMul(OmegaSq, L), C))),
                     GDiv(GMul(Omega, L), R) >>)
        [] tag = TF_RLLC ->
             LET L_eq == GConst(Add(P(prm, "L1"), P(prm, "L2")))
             IN  cDiv(<<one, GZero>>,
                      << GAdd(one, GNeg(GMul(GMul(OmegaSq, L_eq), C))),
                         GMul(GMul(Omega, R), C) >>)
        [] tag = TF_RLCC ->
             LET C_eq == GConst(Div(Mul(P(prm, "C1"), P(prm, "C2")),
                                    Add(P(prm, "C1"), P(prm, "C2"))))
             IN  cDiv(<<one, GZero>>,
                      << GAdd(one, GNeg(GMul(GMul(OmegaSq, L), C_eq))),
                         GMul(GMul(Omega, R), C_eq) >>)
        [] OTHER -> "default"

\* Mutation of Sweep: an unmatched tag fails the sweep.
SweepUnmatchedFails(c, H) ==
  LET freq == generateFrequencyVector(FMin, FMax, FreqPoints)
      tags == {TF_RC, TF_RL, TF_RLC_VR, TF_RLC_PAR, TF_RLLC, TF_RLCC}
  IN  IF c.transferFunction \in tags
      THEN [freq |-> freq,
            mag |-> [i \in DOMAIN freq |-> MagDb(H, freq[i])],
            phase |-> [i \in DOMAIN freq |-> PhaseDeg(H, freq[i])],
            status |-> "complete"]
      ELSE [status |-> "error", message |-> "Bode plot calculation failed."]

\* The loop over the frequency vector, H(jw) being the closed form of the tag.
Sweep(c, H) ==
  LET freq == generateFrequencyVector(FMin, FMax, FreqPoints)
      tags == {TF_RC, TF_RL, TF_RLC_VR, TF_RLC_PAR, TF_RLLC, TF_RLCC}
  IN  IF c.transferFunction \in tags
      THEN [freq |-> freq,
            mag |-> [i \in DOMAIN freq |-> MagDb(H, freq[i])],
            phase |-> [i \in DOMAIN freq |-> PhaseDeg(H, freq[i])],
            status |-> "complete"]
      ELSE [freq |-> freq,
            mag |-> [i \in DOMAIN freq |-> Zero],
            phase |-> [i \in DOMAIN freq |-> Zero],
            status |-> "complete"]

\* What the default branch writes with console.warn (lines 115-118).
FrequencyWarnings(c) ==
  IF c.transferFunction \notin {TF_RC, TF_RL, TF_RLC_VR, TF_RLC_PAR, TF_RLLC, TF_RLCC}
     /\ c.transferFunction # ""
  THEN << "Unimplemented transfer function for Bode: " \o c.transferFunction >>
  ELSE << >>

solveFrequencyResponse(c, prm) ==
  CHOOSE r \in {Sweep(c, H) : H \in {TransferH(c.transferFunction, prm)}} : TRUE

(***************************************************************************)
(* stateSpaceModels.js: the output mappings `map` of the registry          *)
(***************************************************************************)
\* time.map((t, i) => f(t, i))
MapTime(res, F(_, _)) == [i \in DOMAIN res.time |-> F(res.time[i], i)]

ModelMap(key, res, prm) ==
  LET R == P(prm, "R")
      KvlDrop == MapTime(res, LAMBDA t, i :
                   Sub(Sub(getVin(t, prm), res.y0[i]), Mul(res.y1[i], R)))
  IN  CASE key = "solveRcCharge" ->
             [Vc |-> res.y0,
              i |-> MapTime(res, LAMBDA t, i : Div(Sub(getVin(t, prm), res.y0[i]), R))]
        [] key = "solveRcDischarge" ->
             [Vc |-> res.y0,
              i |-> MapTime(res, LAMBDA t, i :
                      ExpTerm(Div(Neg(P(prm, "V0")), R),
                              Div(Neg(t), Mul(R, P(prm, "C")))))]
        [] key = "solveRlEnergize" ->
             [iL |-> res.y0,
              Vl |-> MapTime(res, LAMBDA t, i : Sub(getVin(t, prm), Mul(res.y0[i], R)))]
        [] key = "solveRlDeEnergize" ->
             [iL |-> res.y0,
              Vr |-> [i \in DOMAIN res.y0 |-> Mul(Neg(res.y0[i]), R)]]
        [] key = "solveRlcSeries" ->
             [Vc |-> res.y0, i |-> res.y1, Vl |-> KvlDrop,
              Vr |-> [i \in DOMAIN res.y1 |-> Mul(res.y1[i], R)]]
        [] key = "solveRllcSeries" ->
             [Vc |-> res.y0, i |-> res.y1, Vl_total |-> KvlDrop,
              Vr |-> [i \in DOMAIN res.y1 |-> Mul(res.y1[i], R)]]
        [] key = "solve3RlccSeries" ->
             [i |-> res.y0, Vc1 |-> res.y1, Vc2 |-> res.y2,
              Vc_total |-> [i \in DOMAIN res.y1 |-> Add(res.y1[i], res.y2[i])],
              Vr |-> [i \in DOMAIN res.y0 |-> Mul(res.y0[i], R)]]
        [] key = "solveRlcParallel" ->
             [Vc |-> res.y0, iL |-> res.y1,
              iR |-> [i \in DOMAIN res.y0 |-> Div(res.y0[i], R)],
              iC |-> MapTime(res, LAMBDA t, i :
                       Sub(Sub(getVin(t, prm), Div(res.y0[i], R)), res.y1[i]))]

(***************************************************************************)
(* solver.js: solve                                                        *)
(***************************************************************************)
\* formatCoeff(n): which formatting branch renders n (the digits themselves
\* are not modelled).
formatCoeff(n) ==
  LET v == ToNumber(n)
      absN == IF v.k = "nan" THEN v ELSE [v EXCEPT !.n = Abs(@)]
  IN  IF NumEq(v, Zero) THEN [fmt |-> "0", of |-> v]
      ELSE IF NumEq(v, One) THEN [fmt |-> "1", of |-> v]
      ELSE IF Lt(absN, Fin(1, 1000)) /\ Gt(absN, Zero) THEN [fmt |-> "toFixed(10)", of |-> v]
      ELSE IF Lt(absN, One) /\ Gt(absN, Zero) THEN [fmt |-> "toFixed(6)", of |-> v]
      ELSE IF Gt(absN, Int2Num(FMax)) THEN [fmt |-> "toExponential(2)", of |-> v]
      ELSE [fmt |-> "toFixed(4)", of |-> v]

\* The damping label chosen from zeta.
DampingLabel(zeta) ==
  IF SGtOne(zeta) THEN "Overdamped"
  ELSE IF SEqOne(zeta) THEN "Critically Damped"
  ELSE "Underdamped"

\* The analysis text of a 2nd-order circuit: zeta.toFixed(3), its label and
\* (omega0 / (2*Math.PI)).toFixed(2).
DampingAnalysis(zeta, omega0) ==
  [kind |-> "Damping Ratio / Natural Freq", zeta |-> zeta,
   label |-> DampingLabel(zeta), omega0 |-> omega0]

NoAnalysis == [kind |-> ""]

\* First name of circuit.params that fails the validation loop, or "".
FirstInvalid(c, prm) ==
  IF \E i \in DOMAIN c.params :
       P(prm, c.params[i]) = Undefined \/ isNaN(P(prm, c.params[i]))
  THEN LET i == CHOOSE j \in DOMAIN c.params :
                  /\ P(prm, c.params[j]) = Undefined \/ isNaN(P(prm, c.params[j]))
                  /\ \A h \in 1..(j - 1) :
                       ~(P(prm, c.params[h]) = Undefined \/ isNaN(P(prm, c.params[h])))
       IN  c.params[i]
  ELSE ""

\* !model || typeof model.func !== 'function'
NoModel(c) == c.solver \notin DOMAIN models \/ models[c.solver].func = "none"

\* Mutation of Unimplemented: a missing model reported as a plain error.
UnimplementedAsError ==
  [status |-> "error", message |-> "This circuit solver is not yet implemented."]

Unimplemented ==
  [status |-> "unimplemented", message |-> "This circuit solver is not yet implemented."]

ValidationError(param) ==
  [status |-> "error", message |-> "Invalid or missing parameter: " \o param]

\* Equivalent R, L, C of an order-2 / order-3 circuit (lines 229-241).
Equivalent(c, prm) ==
  LET R_eq == P(prm, "R")
      L_eq == P(prm, "L")
      C_eq == P(prm, "C")
  IN  IF Includes(c.id, "rllc-series")
      THEN [R |-> R_eq, L |-> Add(P(prm, "L1"), P(prm, "L2")), C |-> C_eq]
      ELSE IF Includes(c.id, "rlcc-series")
      THEN [R |-> R_eq, L |-> P(prm, "L"),
            C |-> IF Gt(Add(P(prm, "C1"), P(prm, "C2")), Zero)
                  THEN Div(Mul(P(prm, "C1"), P(prm, "C2")), Add(P(prm, "C1"), P(prm, "C2")))
                  ELSE Zero]
      ELSE [R |-> R_eq, L |-> L_eq, C |-> C_eq]

AllPositive(e) == Gt(e.R, Zero) /\ Gt(e.L, Zero) /\ Gt(e.C, Zero)

\* poles, stabilityStatus and analysis of an order-2 / order-3 circuit.
PoleAnalysis(c, prm) ==
  LET e == Equivalent(c, prm)
  IN  IF Includes(c.id, "rlc-parallel")
      THEN IF AllPositive(e)
           THEN LET b_p == Div(One, Mul(e.R, e.C))
                    c_p == Div(One, Mul(e.L, e.C))
                    zeta_p == SMulNum(Sqrt(Div(e.L, e.C)), Div(One, Mul(Int2Num(2), e.R)))
                    omega0_p == NumDivS(One, Sqrt(Div(e.L, e.C)))
                IN  CHOOSE r \in
                      {[poles |-> Arr(poles),
                        stabilityStatus |->
                          IF \E i \in DOMAIN poles : SGtTol(poles[i].re)
                          THEN Verdict("Unstable", "At least one pole with Re(p) > 0.")
                          ELSE Verdict("Stable", "All poles Re(p) < 0."),
                        analysis |-> DampingAnalysis(zeta_p, omega0_p)] :
                       poles \in {QuadraticRoots(b_p, c_p)}} : TRUE
           ELSE [poles |-> Null, stabilityStatus |-> Null, analysis |-> NoAnalysis]
      ELSE IF AllPositive(e)
           THEN LET alpha == Div(e.R, Mul(Int2Num(2), e.L))
                IN  CHOOSE r \in
                      {[poles |-> Arr(pzAnalysis.poles),
                        stabilityStatus |-> pzAnalysis.stabilityStatus,
                        analysis |-> DampingAnalysis(NumDivS(alpha, omega0), omega0)] :
                       pzAnalysis \in {calculatePolesAndStability(e.R, e.L, e.C)},
                       omega0 \in {NumDivS(One, Sqrt(Mul(e.L, e.C)))}} : TRUE
           ELSE [poles |-> Null, stabilityStatus |-> Null, analysis |-> NoAnalysis]

\* Mutation of Zeros: the parallel-RLC branch is left out.
ZerosSeriesOnly(c) ==
  IF c.transferFunction = TF_RLC_VR THEN << Pole(S(Zero), S(Zero)) >> ELSE <<>>

\* zeros from the transfer-function tag (lines 286-290).
Zeros(c) ==
  IF c.transferFunction = TF_RLC_VR THEN << Pole(S(Zero), S(Zero)) >>
  ELSE IF c.transferFunction = TF_RLC_PAR THEN << Pole(S(Zero), S(Zero)) >>
  ELSE <<>>

\* tfString (lines 322-350): the rendered quotient and its coefficients.
TfString(c, prm) ==
  IF Includes(c.id, "rlc-series")
  THEN LET a == Mul(P(prm, "L"), P(prm, "C"))
           b == Mul(P(prm, "R"), P(prm, "C"))
       IN  IF c.transferFunction = TF_RLC_VR
           THEN [isNull |-> FALSE, quotient |-> "V_r(s) / V_{in}(s)",
                 num |-> formatCoeff(Mul(P(prm, "R"), P(prm, "C"))),
                 a |-> formatCoeff(a), b |-> formatCoeff(b)]
           ELSE [isNull |-> FALSE, quotient |-> "V_c(s) / V_{in}(s)",
                 num |-> formatCoeff(One), a |-> formatCoeff(a), b |-> formatCoeff(b)]
  ELSE IF Includes(c.id, "rllc-series")
  THEN [isNull |-> FALSE, quotient |-> "V_c(s) / V_{in}(s)", num |-> formatCoeff(One),
        a |-> formatCoeff(Mul(Add(P(prm, "L1"), P(prm, "L2")), P(prm, "C"))),
        b |-> formatCoeff(Mul(P(prm, "R"), P(prm, "C")))]
  ELSE IF Includes(c.id, "rlcc-series")
  THEN LET C_eq_s == IF Gt(Add(P(prm, "C1"), P(prm, "C2")), Zero)
                     THEN Div(Mul(P(prm, "C1"), P(prm, "C2")),
                              Add(P(prm, "C1"), P(prm, "C2")))
                     ELSE Zero
       IN  [isNull |-> FALSE, quotient |-> "V_c(s) / V_{in}(s)", num |-> formatCoeff(One),
            a |-> formatCoeff(Mul(P(prm, "L"), C_eq_s)),
            b |-> formatCoeff(Mul(P(prm, "R"), C_eq_s))]
  ELSE IF Includes(c.id, "rlc-parallel")
  THEN [isNull |-> FALSE, quotient |-> "V(s) / I_{in}(s)",
        num |-> formatCoeff(P(prm, "L")),
        a |-> formatCoeff(Mul(P(prm, "L"), P(prm, "C"))),
        b |-> formatCoeff(Div(P(prm, "L"), P(prm, "R")))]
  ELSE Null

\* Mutation of Analysis: the poles, zeros and verdict are worked out for
\* the Step input only.
AnalysisStepOnly(c, prm) ==
  IF (c.order = 2 \/ c.order = 3) /\ prm.inputType = "Step"
  THEN CHOOSE r \in
         {[analysis |-> pa.analysis, poles |-> pa.poles, zeros |-> Zeros(c),
           stabilityStatus |-> pa.stabilityStatus, tfString |-> TfString(c, prm)] :
          pa \in {PoleAnalysis(c, prm)}} : TRUE
  ELSE IF c.order = 1 /\ Gt(P(prm, "R"), Zero)
  THEN LET tau == IF Truthy(P(prm, "C")) THEN Mul(P(prm, "R"), P(prm, "C"))
                  ELSE Div(P(prm, "L"), P(prm, "R"))
       IN  [analysis |-> [kind |-> "Time Constant", ms |-> Mul(tau, Int2Num(1000))],
            poles |-> Null, zeros |-> <<>>, stabilityStatus |-> Null, tfString |-> Null]
  ELSE [analysis |-> NoAnalysis, poles |-> Null, zeros |-> <<>>,
        stabilityStatus |-> Null, tfString |-> Null]

\* Section 3 of solve: analysis, poles, zeros, stabilityStatus, tfString.
Analysis(c, prm) ==
  IF c.order = 2 \/ c.order = 3
  THEN CHOOSE r \in
         {[analysis |-> pa.analysis, poles |-> pa.poles, zeros |-> Zeros(c),
           stabilityStatus |-> pa.stabilityStatus, tfString |-> TfString(c, prm)] :
          pa \in {PoleAnalysis(c, prm)}} : TRUE
  ELSE IF c.order = 1 /\ Gt(P(prm, "R"), Zero)
  THEN LET tau == IF Truthy(P(prm, "C")) THEN Mul(P(prm, "R"), P(prm, "C"))
                  ELSE Div(P(prm, "L"), P(prm, "R"))
       IN  [analysis |-> [kind |-> "Time Constant", ms |-> Mul(tau, Int2Num(1000))],
            poles |-> Null, zeros |-> <<>>, stabilityStatus |-> Null, tfString |-> Null]
  ELSE [analysis |-> NoAnalysis, poles |-> Null, zeros |-> <<>>,
        stabilityStatus |-> Null, tfString |-> Null]

\* Mutation of FinalValue: the waveform kind is not looked at.
FinalValueAnyInput(c, prm) ==
  LET v1 == IF Includes(c.id, "rc-charge") \/ Includes(c.id, "rlc-series")
               \/ Includes(c.id, "rllc-series") \/ Includes(c.id, "rlcc-series")
            THEN P(prm, "V") ELSE Zero
      v2 == IF Includes(c.id, "rl-energize")
            THEN (IF Gt(P(prm, "R"), Zero) THEN Div(P(prm, "V"), P(prm, "R")) ELSE Zero)
            ELSE v1
  IN  IF Includes(c.id, "rlc-parallel") THEN Mul(P(prm, "V"), P(prm, "R")) ELSE v2

\* finalValue (lines 358-362).
FinalValue(c, prm) ==
  IF prm.inputType = "Step"
  THEN LET v1 == IF Includes(c.id, "rc-charge") \/ Includes(c.id, "rlc-series")
                    \/ Includes(c.id, "rllc-series") \/ Includes(c.id, "rlcc-series")
                 THEN P(prm, "V") ELSE Zero
           v2 == IF Includes(c.id, "rl-energize")
                 THEN (IF Gt(P(prm, "R"), Zero) THEN Div(P(prm, "V"), P(prm, "R")) ELSE Zero)
                 ELSE v1
       IN  IF Includes(c.id, "rlc-parallel") THEN Mul(P(prm, "V"), P(prm, "R")) ELSE v2
  ELSE Zero

\* Mutation of Combine: the zeros entry is left out of the result.
CombineWithoutZeros(timeDomain, odeResults, freqDomain, an, finalValue) ==
  [time |-> odeResults.time,
   freq |-> freqDomain.freq, mag |-> freqDomain.mag, phase |-> freqDomain.phase,
   analysis |-> an.analysis, finalValue |-> finalValue, poles |-> an.poles,
   stabilityStatus |-> an.stabilityStatus,
   tfString |-> an.tfString, status |-> "complete"] @@ timeDomain

\* The object literal that combines all results (lines 365-378).
Combine(timeDomain, odeResults, freqDomain, an, finalValue) ==
  [time |-> odeResults.time,
   freq |-> freqDomain.freq, mag |-> freqDomain.mag, phase |-> freqDomain.phase,
   analysis |-> an.analysis, finalValue |-> finalValue, poles |-> an.poles,
   zeros |-> an.zeros, stabilityStatus |-> an.stabilityStatus,
   tfString |-> an.tfString, status |-> "complete"] @@ timeDomain

\* solve(circuit, params) together with the stages the call went through,
\* the integrator's output and the warnings logged (ret is the returned value).
SolveCall(c, prm) ==
  IF NoModel(c)
  THEN [ret |-> Unimplemented, stages |-> {}, ode |-> Null, log |-> << >>]
  ELSE IF FirstInvalid(c, prm) # ""
  THEN [ret |-> ValidationError(FirstInvalid(c, prm)), stages |-> {}, ode |-> Null,
        log |-> << >>]
  ELSE LET model == models[c.solver]
           initialState == InitialState(model, prm)
           analyzed(odeResults, freqDomain) ==
             CHOOSE r \in
               {[ret |-> Combine(ModelMap(c.solver, odeResults, prm), odeResults,
                                 freqDomain, an, FinalValue(c, prm)),
                 stages |-> {"integration", "frequency"}
                            \cup (IF an.poles # Null THEN {"poles"} ELSE {}),
                 ode |-> odeResults, log |-> FrequencyWarnings(c)] :
                an \in {Analysis(c, prm)}} : TRUE
       IN  CHOOSE r \in
             {IF freqDomain.status = "error"
              THEN [ret |-> freqDomain, stages |-> {"integration", "frequency"},
                    ode |-> odeResults, log |-> FrequencyWarnings(c)]
              ELSE analyzed(odeResults, freqDomain) :
              odeResults \in {solveODE(model.func, initialState, prm, Zero,
                                       P(prm, "tEnd"), Points)},
              freqDomain \in {solveFrequencyResponse(c, prm)}} : TRUE

solve(c, prm) == SolveCall(c, prm).ret

\* The trace names each registered output mapping returns.
OutputTraces ==
  [key \in DOMAIN models |->
   CASE key = "solveRcCharge" -> {"Vc", "i"}
     [] key = "solveRcDischarge" -> {"Vc", "i"}
     [] key = "solveRlEnergize" -> {"iL", "Vl"}
     [] key = "solveRlDeEnergize" -> {"iL", "Vr"}
     [] key = "solveRlcSeries" -> {"Vc", "i", "Vl", "Vr"}
     [] key = "solveRllcSeries" -> {"Vc", "i", "Vl_total", "Vr"}
     [] key = "solve3RlccSeries" -> {"i", "Vc1", "Vc2", "Vc_total", "Vr"}
     [] key = "solveRlcParallel" -> {"Vc", "iL", "iR", "iC"}]

(***************************************************************************)
(* stateSpaceModels.js: findCrossing and calculateMetrics                  *)
(***************************************************************************)
\* Mutation of findCrossing: only a rising crossing is detected.
findCrossingRisingOnly(time, signal, target) ==
  LET hits == {i \in 2..Len(signal) :
                 Lt(signal[i - 1], target) /\ Ge(signal[i], target)}
  IN  IF hits = {} THEN Null
      ELSE time[CHOOSE i \in hits : \A h \in hits : i <= h]

\* The time at the first index where the signal crosses the target, or null.
findCrossing(time, signal, target) ==
  LET hits == {i \in 2..Len(signal) :
                 \/ Lt(signal[i - 1], target) /\ Ge(signal[i], target)
                 \/ Gt(signal[i - 1], target) /\ Le(signal[i], target)}
  IN  IF hits = {} THEN Null
      ELSE time[CHOOSE i \in hits : \A h \in hits : i <= h]

\* Math.max(...signal): NaN when an entry is NaN, -Infinity for no entries.
MathMax(signal) ==
  IF \E i \in DOMAIN signal : ToNumber(signal[i]).k = "nan" THEN NaN
  ELSE IF Len(signal) = 0 THEN NegInf
  ELSE signal[CHOOSE i \in DOMAIN signal : \A h \in DOMAIN signal : Ge(signal[i], signal[h])]

\* time[signal.indexOf(value)]: the time at the first strictly equal entry,
\* undefined when there is none.
TimeAtIndexOf(time, signal, value) ==
  LET found == {i \in DOMAIN signal : NumEq(signal[i], value)}
  IN  IF found = {} THEN Undefined
      ELSE time[CHOOSE i \in found : \A h \in found : i <= h]

Metric(value, unit) == [value |-> value, unit |-> unit]

\* The metrics object with no entries.
NoMetrics == [nm \in {} |-> Null]

\* "Find peak value": peakValue, peakTime and the guarded overshoot.
PeakMetrics(time, signal, finalValue) ==
  [nm \in {"peakValue", "peakTime"}
          \cup (IF Gt(finalValue, Fin(1, 1000000)) THEN {"overshoot"} ELSE {}) |->
     IF nm = "peakValue" THEN Metric(MathMax(signal), "V")
     ELSE IF nm = "peakTime"
     THEN Metric(TimeAtIndexOf(time, signal, MathMax(signal)), "s")
     ELSE Metric(Mul(Div(Sub(MathMax(signal), finalValue), finalValue), Int2Num(100)), "%")]

\* "Find Rise Time (10% to 90%)".
RiseMetrics(time, signal, finalValue) ==
  LET t10 == findCrossing(time, signal, Mul(finalValue, Fin(1, 10)))
      t90 == findCrossing(time, signal, Mul(finalValue, Fin(9, 10)))
  IN  IF t10 # Null /\ t90 # Null
      THEN [nm \in {"riseTime"} |-> Metric(Sub(t90, t10), "s")]
      ELSE NoMetrics

\* "Find Settling Time (within 2% of final value)": the backward scan.
SettlingMetrics(time, signal, finalValue) ==
  LET settleLower == Mul(finalValue, Fin(49, 50))
      settleUpper == Mul(finalValue, Fin(51, 50))
      len == Len(time)
      outside == {i \in 1..len : Lt(signal[i], settleLower) \/ Gt(signal[i], settleUpper)}
      last == CHOOSE i \in outside : \A h \in outside : h <= i
      tSettle == IF outside = {} THEN (IF len = 0 THEN Undefined ELSE time[1])
                 ELSE IF last + 1 <= len THEN time[last + 1] ELSE time[last]
  IN  [nm \in {"settlingTime"} |-> Metric(tSettle, "s")]

\* requestedMetrics is the topology's `metrics` array, never absent.
calculateMetrics(res, primaryTrace, finalValue, requestedMetrics) ==
  IF "time" \notin DOMAIN res \/ primaryTrace \notin DOMAIN res
  THEN NoMetrics
  ELSE LET time == res.time
           signal == res[primaryTrace]
           includes(m) == \E i \in DOMAIN requestedMetrics : requestedMetrics[i] = m
       IN  (IF includes("peakValue") \/ includes("overshoot")
            THEN PeakMetrics(time, signal, finalValue) ELSE NoMetrics)
           @@ (IF includes("riseTime")
               THEN RiseMetrics(time, signal, finalValue) ELSE NoMetrics)
           @@ (IF includes("settlingTime")
               THEN SettlingMetrics(time, signal, finalValue) ELSE NoMetrics)

\* The primary trace AnalysisDisplay hands to calculateMetrics; "" stands
\* for a primaryTrace left undefined.
AnalysisPrimaryTrace(c) ==
  IF Includes(c.id, "rl-energize") THEN "iL"
  ELSE IF \/ Includes(c.id, "rc-charge") \/ Includes(c.id, "rlc-series")
          \/ Includes(c.id, "rlc-parallel") \/ Includes(c.id, "rllc-series")
          \/ Includes(c.id, "rlcc-series")
       THEN "Vc"
  ELSE IF Includes(c.id, "discharge") \/ Includes(c.id, "deenergize")
       THEN (IF Includes(c.id, "rc") THEN "Vc" ELSE "iL")
  ELSE ""

\* The primary trace exportReportToHTML hands to calculateMetrics: the same
\* chain, with the discharge test as a separate `if`.
ReportPrimaryTrace(c) ==
  LET first == IF Includes(c.id, "rl-energize") THEN "iL"
               ELSE IF \/ Includes(c.id, "rc-charge") \/ Includes(c.id, "rlc-series")
                       \/ Includes(c.id, "rlc-parallel") \/ Includes(c.id, "rllc-series")
                       \/ Includes(c.id, "rlcc-series")
                    THEN "Vc"
               ELSE ""
  IN  IF Includes(c.id, "discharge") \/ Includes(c.id, "deenergize")
      THEN (IF Includes(c.id, "rc") THEN "Vc" ELSE "iL")
      ELSE first

\* (primaryTrace && circuit.metrics) ? calculateMetrics(...) : {}
TransientMetrics(c, res, primaryTrace) ==
  IF primaryTrace # ""
  THEN calculateMetrics(res, primaryTrace, res.finalValue, c.metrics)
  ELSE NoMetrics

(***************************************************************************)
(* The root-locus generator (section 4.5 of the specification): the poles  *)
(* of the analyzer at evenly spaced values of one swept parameter, one     *)
(* ordered sequence of points per pole branch.                             *)
(***************************************************************************)
\* The point that stands for a sample without poles.
PlaceholderPoint == [re |-> Null, im |-> Null]

\* Sample i (from 1) of sampleCount evenly spaced values from min to max.
SweepValue(min, max, sampleCount, i) ==
  Add(min, Div(Mul(Sub(max, min), Int2Num(i - 1)), Int2Num(sampleCount - 1)))

\* The pole pair of the analyzer with the swept parameter at value v.
PolesAt(c, prm, sweepParamName, v) ==
  CHOOSE r \in {calculatePolesAndStability(e.R, e.L, e.C).poles :
                  e \in {Equivalent(c, [prm EXCEPT !.num[sweepParamName] = v])}} : TRUE

\* Mutation of GenerateLocus: a sample without poles is left out of the
\* branches.
GenerateLocusSkipping(c, prm, sweepParamName, min, max, sampleCount) ==
  [traces |->
     [b \in 1..2 |->
        LET pts == [i \in 1..sampleCount |->
                      PolesAt(c, prm, sweepParamName,
                              SweepValue(min, max, sampleCount, i))]
            kept == SelectSeq(pts, LAMBDA pl : Len(pl) >= b)
        IN  [i \in 1..Len(kept) |-> kept[i][b]]]]

GenerateLocus(c, prm, sweepParamName, min, max, sampleCount) ==
  [traces |->
     [b \in 1..2 |->
        [i \in 1..sampleCount |->
           CHOOSE pt \in
             {IF Len(poles) >= b THEN poles[b] ELSE PlaceholderPoint :
                poles \in {PolesAt(c, prm, sweepParamName,
                                   SweepValue(min, max, sampleCount, i))}} : TRUE]]]

(***************************************************************************)
(* The calls the engine receives.  A ParameterSet is the topology's own    *)
(* parameter list plus tEnd and Freq (what App.js builds from `defaults`), *)
(* every value 1 except that tEnd spans Points - 1 steps of 2 seconds      *)
(* and Freq is 1/4 Hz; one entry at a time is then replaced by an edited   *)
(* value, including the values a text field or a loaded file can yield.    *)
(***************************************************************************)
\* A topology whose solver key has no entry in `models`.
UnregisteredCircuit ==
  [id |-> "2-rl-parallel", order |-> 2, params |-> <<"V", "R", "L">>,
   solver |-> "solveRlParallel", transferFunction |-> TF_RL]

\* The series RLC measured across the capacitor: its tag has no closed form
\* in solveFrequencyResponse.
UntaggedCircuit ==
  [CurrentCircuit("2-rlc-series") EXCEPT !.transferFunction = "1 / (s^2LC + sRC + 1)"]

Circuits ==
  {CurrentCircuit(id) : id \in DOMAIN circuitDefinitions}
    \cup {UnregisteredCircuit, UntaggedCircuit}

InputTypesOf(c) ==
  IF c.id \in DOMAIN circuitDefinitions
  THEN {circuitDefinitions[c.id].inputType[i] :
          i \in DOMAIN circuitDefinitions[c.id].inputType}
  ELSE {AllInputTypes[i] : i \in DOMAIN AllInputTypes}

BaseParams(c, inputType) ==
  [num |-> [nm \in ParamNames |->
              IF nm = "tEnd" THEN Int2Num(2 * (Points - 1))
              ELSE IF nm = "Freq" THEN Fin(1, 4)
              ELSE IF \E i \in DOMAIN c.params : c.params[i] = nm THEN One
              ELSE Undefined],
   inputType |-> inputType]

EditableNames(c) == {c.params[i] : i \in DOMAIN c.params} \cup {"tEnd", "Freq"}

EditedValues(nm) ==
  IF nm = "tEnd" THEN {Undefined, NaN, PosInf, Zero, Int2Num(2 * (1 - Points))}
  ELSE IF nm = "Freq" THEN {Undefined, NaN, PosInf, Zero}
  ELSE IF nm \in {"V", "V0", "I0"} THEN {Undefined, NaN, PosInf, Zero, Int2Num(2)}
  ELSE {Undefined, NaN, PosInf, NegInf, Zero, Int2Num(-1), Int2Num(2)}

ParameterSets(c) ==
  {BaseParams(c, it) : it \in InputTypesOf(c)}
    \cup UNION {{[BaseParams(c, it) EXCEPT !.num[nm] = v] :
                   it \in InputTypesOf(c), v \in EditedValues(nm)} :
                 nm \in EditableNames(c)}

\* End times of a direct call of the integrator with `points` samples.
IntegrationSpans(points) ==
  {Int2Num(2 * (points - 1)), Int2Num(2 * (1 - points)), Zero, NaN}

\* End times that put the samples of a first-order Step or Ramp run half a
\* time constant apart (the base parameters give R*C = L/R = 1).
FineSpans(c, inputType, points) ==
  IF inputType # "Sine" /\ c.order = 1 THEN {Fin(points - 1, 2)} ELSE {}

\* Number of samples of the traces handed to calculateMetrics (1000 in the
\* application; the scans are the same for every count >= 1).
MaxSamples == 3

\* Sample values below, between, inside and above the 10%, 90% and +/-2%
\* levels of the final values, and NaN.
SampleValues == {Zero, Fin(1, 2), One, Fin(3, 2), NaN}

\* The time grid of a trace with n samples.
SampleTimes(n) == [i \in 1..n |-> Int2Num(i - 1)]

\* Final values: zero, within 1e-6 of zero, attained, out of reach, negative.
FinalValues == {Zero, Fin(1, 2000000), One, Int2Num(2), Int2Num(-1)}

\* circuit.metrics of the defined topologies.
RequestedMetrics == {circuitDefinitions[id].metrics : id \in DOMAIN circuitDefinitions}

\* Number of samples of a root-locus sweep (50 in the specification's example).
MaxLocusSamples == 3

\* ControlPanel.js locusParamOptions: the component parameters of a topology.
\* (the declared names that start with R, L or C).
LocusParamOptions(c) ==
  {c.params[i] : i \in DOMAIN c.params} \cap {"R", "L", "C", "L1", "L2", "C1", "C2"}

\* Ends of a sweep range (the min and max fields take any number).
LocusEnds == {Int2Num(-1), Zero, One, Int2Num(3)}

\* Arguments of a direct call of the pole analyzer.
AnalyzerR == {Int2Num(-1), Zero, One, Int2Num(2), Int2Num(3)}
AnalyzerLC == {Int2Num(-1), Zero, One, Int2Num(2)}

(***************************************************************************)
(* App.js: the state of the App component, the topology table its handlers *)
(* read and write, and the callbacks handed to setTimeout.                 *)
(*                                                                         *)
(* A params state is a reference: either to the defaults object of a       *)
(* topology definition (ref names the topology) or to an object of its own *)
(* (ref is empty).  A key holding undefined is not told apart from an      *)
(* absent key.                                                             *)
(*                                                                         *)
(* `entered` is a history variable: the keys of the params state whose     *)
(* value comes from a text-field entry or a file value that is not a       *)
(* number.                                                                 *)
(***************************************************************************)
\* Number of UI events one run follows.
MaxEvents == 3

\* The reference to circuitDefinitions[id].defaults itself.
DefaultsOf(id) == [ref |-> id, own |-> Obj(<< >>)]

\* The reference to a fresh object literal.
OwnObject(obj) == [ref |-> "", own |-> obj]

\* The object a params reference denotes.
Deref(p) == IF p.ref = "" THEN p.own ELSE definitions[p.ref].defaults

\* ControlPanel.js handleLocalSimulate: parseFloat of every key of params,
\* NaN -> 0, and the input type added.
SolverParams(obj, inputType) ==
  [num |-> [nm \in ParamNames |->
              IF obj[nm] = Undefined THEN Undefined
              ELSE IF isNaN(obj[nm]) THEN Zero
              ELSE obj[nm]],
   inputType |-> inputType]

\* The value of solve(circuit, params) as the App's callback uses it: its
\* status and message; a complete result is named by the call it answers.
SolveOutcome(c, prm) ==
  IF NoModel(c) THEN Unimplemented
  ELSE IF FirstInvalid(c, prm) # "" THEN ValidationError(FirstInvalid(c, prm))
  ELSE [status |-> "complete", circuitId |-> c.id, params |-> prm]

\* ControlPanel.js convertToSolver(name, value), value given by what
\* parseFloat makes of it: UI units (mH, uF) to base units, NaN to 0.
convertToSolver(name, value) ==
  IF isNaN(value) THEN Zero
  ELSE IF name \in {"L", "L1", "L2"} THEN Div(value, Int2Num(1000))
  ELSE IF name \in {"C", "C1", "C2"} THEN Div(value, Int2Num(1000000))
  ELSE value

\* ControlPanel.js convertFromSolver(name, value): base units to UI units.
convertFromSolver(name, value) ==
  IF isNaN(value) THEN Zero
  ELSE IF name \in {"L", "L1", "L2"} THEN Mul(value, Int2Num(1000))
  ELSE IF name \in {"C", "C1", "C2"} THEN Mul(value, Int2Num(1000000))
  ELSE value

\* What is typed into a text field, as parseFloat reads it: NaN for an empty
\* or unparsable entry, and numbers.
TypedValues == {NaN, One, Int2Num(10)}

\* The text fields followed: the source amplitude and the simulation time.
TypedFields == {"V", "tEnd"}

\* handleSaveConfig: the file saved for a topology at its declared defaults
\* (params in UI units).
SavedConfig(id, inputType) ==
  [circuitId |-> id, inputType |-> inputType,
   params |-> [nm \in ParamNames |->
                 IF circuitDefinitions[id].defaults[nm] = Undefined THEN Undefined
                 ELSE convertFromSolver(nm, circuitDefinitions[id].defaults[nm])]]

\* Configuration files: saved states of two topologies, with an input type
\* that the topology offers or not, and two edited files, one with a
\* non-numeric R and one without R.
ConfigFiles ==
  {SavedConfig(id, it) : id \in {"1-rc-discharge", "2-rlc-series"},
                         it \in {"Step", "Sine"}}
    \cup {[SavedConfig("1-rc-discharge", "Step") EXCEPT !.params["R"] = v] :
            v \in {NaN, Undefined}}

(***************************************************************************)
(* The state machine: the engine is idle, or holds the outcome of one call *)
(* of solve, of solveODE, of calculatePolesAndStability, of                *)
(* calculateMetrics or of the root-locus generator until the caller has    *)
(* taken it.                                                               *)
(***************************************************************************)
Init ==
  /\ pc = "idle"
  /\ circuit = Null
  /\ params = Null
  /\ result = Null
  /\ trace = Null
  /\ definitions = circuitDefinitions
  /\ app = [circuitId |-> "1-rc-charge", inputType |-> "Step",
            params |-> DefaultsOf("1-rc-charge"),
            simStatus |-> "ready", simResult |-> Null, simError |-> Null]
  /\ timers = << >>
  /\ events = 0
  /\ entered = {}

\* solve(circuit, params)
Simulate(c, prm) ==
  /\ pc = "idle"
  /\ pc' = "solved"
  /\ circuit' = c
  /\ params' = prm
  /\ \E call \in {SolveCall(c, prm)} :
       /\ result' = call.ret
       /\ trace' = [stages |-> call.stages, ode |-> call.ode, log |-> call.log]
  /\ UNCHANGED appVars

\* solveODE(odeFunc, initialState, params, 0, tEnd, points)
Integrate(c, inputType, tEnd, points) ==
  /\ pc = "idle"
  /\ ~NoModel(c)
  /\ pc' = "integrated"
  /\ circuit' = c
  /\ params' = BaseParams(c, inputType)
  /\ LET model == models[c.solver]
         prm == BaseParams(c, inputType)
         initialState == InitialState(model, prm)
     IN  /\ result' = solveODE(model.func, initialState, prm, Zero, tEnd, points)
         /\ trace' = [initialState |-> initialState, tStart |-> Zero,
                      tEnd |-> tEnd, points |-> points]
  /\ UNCHANGED appVars

\* calculatePolesAndStability({ R, L, C })
Analyze(R, L, C) ==
  /\ pc = "idle"
  /\ pc' = "analyzed"
  /\ circuit' = Null
  /\ params' = [R |-> R, L |-> L, C |-> C]
  /\ result' = calculatePolesAndStability(R, L, C)
  /\ trace' = Null
  /\ UNCHANGED appVars

\* calculateMetrics(result, primaryTrace, finalValue, circuit.metrics)
Measure(signal, finalValue, requestedMetrics) ==
  /\ pc = "idle"
  /\ pc' = "measured"
  /\ circuit' = Null
  /\ params' = [time |-> SampleTimes(Len(signal)), signal |-> signal,
                finalValue |-> finalValue, requestedMetrics |-> requestedMetrics]
  /\ result' = calculateMetrics([time |-> SampleTimes(Len(signal)), Vc |-> signal],
                                "Vc", finalValue, requestedMetrics)
  /\ trace' = Null
  /\ UNCHANGED appVars

\* GenerateLocus(topology, parameterSet, sweepParamName, min, max, sampleCount)
Locus(c, sweepParamName, min, max, sampleCount) ==
  /\ pc = "idle"
  /\ c.order \in {2, 3}
  /\ pc' = "swept"
  /\ circuit' = c
  /\ params' = BaseParams(c, "Step")
  /\ result' = GenerateLocus(c, BaseParams(c, "Step"), sweepParamName, min, max,
                             sampleCount)
  /\ trace' = [vary |-> sweepParamName, min |-> min, max |-> max,
               sampleCount |-> sampleCount]
  /\ UNCHANGED appVars

\* The caller takes the outcome.
Return ==
  /\ pc # "idle"
  /\ pc' = "idle"
  /\ circuit' = Null
  /\ params' = Null
  /\ result' = Null
  /\ trace' = Null
  /\ UNCHANGED appVars

Next ==
  \/ \E c \in Circuits : \E prm \in ParameterSets(c) : Simulate(c, prm)
  \/ \E c \in Circuits : \E inputType \in InputTypesOf(c) : \E points \in 2..Points :
       \E tEnd \in IntegrationSpans(points) \cup FineSpans(c, inputType, points) :
         Integrate(c, inputType, tEnd, points)
  \/ \E R \in AnalyzerR : \E L \in AnalyzerLC : \E C \in AnalyzerLC : Analyze(R, L, C)
  \/ \E n \in 1..MaxSamples : \E signal \in [1..n -> SampleValues] :
       \E finalValue \in FinalValues : \E requestedMetrics \in RequestedMetrics :
         Measure(signal, finalValue, requestedMetrics)
  \/ \E c \in {CurrentCircuit(id) : id \in DOMAIN circuitDefinitions} :
       \E sweepParamName \in LocusParamOptions(c) :
         \E min \in LocusEnds : \E max \in LocusEnds :
           \E sampleCount \in 2..MaxLocusSamples :
             /\ Le(min, max)
             /\ Locus(c, sweepParamName, min, max, sampleCount)
  \/ Return

Spec == Init /\ [][Next]_vars

\* A string held in a state that may also hold null, boxed so that the two
\* compare.
Str(text) == [isNull |-> FALSE, text |-> text]

(***************************************************************************)
(* The App component: one action per event handler, and one for the        *)
(* callback that handleSimulate hands to setTimeout.                       *)
(***************************************************************************)
\* handleCircuitChange(newId), newId an entry of the topology menu.
CircuitChange(newId) ==
  /\ events < MaxEvents
  /\ newId \in DOMAIN definitions
  /\ events' = events + 1
  /\ app' = [circuitId |-> newId,
             inputType |-> definitions[newId].inputType[1],
             params |-> DefaultsOf(newId),
             simStatus |-> "ready", simResult |-> Null, simError |-> Null]
  /\ entered' = {}
  /\ UNCHANGED <<definitions, timers>>
  /\ UNCHANGED engineVars

\* A text field changes: handleLocalParamChange converts the entry and
\* handleParamChange(name, value) stores a copy of the previous object with
\* that key replaced.
ParamChange(name, entry) ==
  /\ events < MaxEvents
  /\ events' = events + 1
  /\ app' = [app EXCEPT !.params =
                OwnObject([Deref(app.params) EXCEPT ![name] = convertToSolver(name, entry)])]
  /\ entered' = IF isNaN(entry) THEN entered \cup {name} ELSE entered \ {name}
  /\ UNCHANGED <<definitions, timers>>
  /\ UNCHANGED engineVars

\* handleInputTypeChange(newType): newDefaults is the defaults object of the
\* current topology's definition, and V is assigned on it.
InputTypeChange(newType) ==
  /\ events < MaxEvents
  /\ events' = events + 1
  /\ LET V == Deref(app.params)["V"]
         newV == IF newType = "Sine" /\ V = Int2Num(10) THEN One
                 ELSE IF newType # "Sine" /\ V = One THEN Int2Num(10)
                 ELSE V
     IN  definitions' = [definitions EXCEPT ![app.circuitId].defaults["V"] = newV]
  /\ app' = [app EXCEPT !.inputType = newType,
                        !.params = DefaultsOf(app.circuitId),
                        !.simStatus = "ready", !.simResult = Null, !.simError = Null]
  /\ entered' = {}
  /\ UNCHANGED timers
  /\ UNCHANGED engineVars

\* A configuration file is read: handleLoadConfig converts every key of
\* config.params to base units and handleConfigLoad stores the result.
ConfigLoad(config) ==
  /\ events < MaxEvents
  /\ events' = events + 1
  /\ app' = [circuitId |-> config.circuitId,
             inputType |-> config.inputType,
             params |-> OwnObject([nm \in ParamNames |->
                                    IF config.params[nm] = Undefined THEN Undefined
                                    ELSE convertToSolver(nm, config.params[nm])]),
             simStatus |-> "ready", simResult |-> Null, simError |-> Null]
  /\ entered' = {nm \in ParamNames :
                  config.params[nm] # Undefined /\ isNaN(config.params[nm])}
  /\ UNCHANGED <<definitions, timers>>
  /\ UNCHANGED engineVars

\* The Run button (enabled unless simStatus is 'running'): handleLocalSimulate
\* and handleSimulate up to the setTimeout call.
RunSimulation ==
  /\ events < MaxEvents
  /\ app.simStatus # "running"
  /\ events' = events + 1
  /\ app' = [app EXCEPT !.simStatus = "running", !.simResult = Null, !.simError = Null]
  /\ timers' = Append(timers, [circuit |-> CurrentCircuit(app.circuitId),
                               params |-> SolverParams(Deref(app.params), app.inputType)])
  /\ UNCHANGED <<definitions, entered>>
  /\ UNCHANGED engineVars

\* Mutation of SimulationCallback: an outcome that is not 'complete' is
\* dropped.
SimulationCallbackDropsError ==
  /\ timers # << >>
  /\ timers' = Tail(timers)
  /\ \E r \in {SolveOutcome(Head(timers).circuit, Head(timers).params)} :
       app' = IF r.status = "complete"
              THEN [app EXCEPT !.simResult = r, !.simStatus = "complete"]
              ELSE app
  /\ UNCHANGED <<definitions, events, entered>>
  /\ UNCHANGED engineVars

\* The callback of the oldest pending timer.
SimulationCallback ==
  /\ timers # << >>
  /\ timers' = Tail(timers)
  /\ \E r \in {SolveOutcome(Head(timers).circuit, Head(timers).params)} :
       app' = IF r.status = "complete"
              THEN [app EXCEPT !.simResult = r, !.simStatus = "complete"]
              ELSE [app EXCEPT !.simStatus = "error", !.simError = Str(r.message)]
  /\ UNCHANGED <<definitions, events, entered>>
  /\ UNCHANGED engineVars

\* The Export Results as CSV button (enabled when simStatus is 'complete'
\* and a result is held): handleExportCSV. exportResultsToCSV throws when the
\* result has no time array, which every complete result of solve has.
ExportCSV ==
  /\ events < MaxEvents
  /\ app.simStatus = "complete" /\ app.simResult # Null
  /\ events' = events + 1
  /\ app' = IF app.simResult.status = "complete" THEN app
            ELSE [app EXCEPT !.simError =
                               Str("Error exporting CSV: No result data to export.")]
  /\ UNCHANGED <<definitions, timers, entered>>
  /\ UNCHANGED engineVars

\* The Download Report button (enabled likewise): handleExportReport.
\* exportReportToHTML throws when result.status is not 'complete'.
ExportReport ==
  /\ events < MaxEvents
  /\ app.simStatus = "complete" /\ app.simResult # Null
  /\ events' = events + 1
  /\ app' = IF app.simResult.status = "complete" THEN app
            ELSE [app EXCEPT !.simError =
                               Str("Error exporting report: No result data to export.")]
  /\ UNCHANGED <<definitions, timers, entered>>
  /\ UNCHANGED engineVars

\* The input types the Input Type menu offers besides the selected one.
OfferedInputTypes ==
  {definitions[app.circuitId].inputType[i] :
     i \in DOMAIN definitions[app.circuitId].inputType} \ {app.inputType}

\* The text fields on screen among those followed.
FieldsShown ==
  (TypedFields \cap {definitions[app.circuitId].params[i] :
                       i \in DOMAIN definitions[app.circuitId].params})
    \cup {"tEnd"}

AppNext ==
  \/ \E newId \in DOMAIN circuitDefinitions : CircuitChange(newId)
  \/ \E name \in FieldsShown : \E entry \in TypedValues : ParamChange(name, entry)
  \/ \E newType \in OfferedInputTypes : InputTypeChange(newType)
  \/ \E config \in ConfigFiles : ConfigLoad(config)
  \/ RunSimulation
  \/ SimulationCallback
  \/ ExportCSV
  \/ ExportReport

AppSpec == Init /\ [][AppNext]_vars

\* A timer set with setTimeout fires: a pending callback is not postponed
\* forever.
AppFairSpec == AppSpec /\ WF_vars(SimulationCallback)

(***************************************************************************)
(* Properties of the engine                                                *)
(***************************************************************************)
\* The required parameters of the call in progress that are absent or not
\* a finite number.
NotFiniteParams ==
  {circuit.params[i] : i \in {j \in DOMAIN circuit.params :
                                P(params, circuit.params[j]).k # "fin"}}

\* C1: whenever solve is called with a required parameter absent, NaN or
\* +/-Infinity, it returns status 'error' with the message naming such a
\* parameter, and neither the integration, the frequency sweep nor the pole
\* analysis has run for that call.
C1_ValidationFirst ==
  (pc = "solved" /\ NotFiniteParams # {}) =>
    /\ result.status = "error"
    /\ \E nm \in NotFiniteParams :
         result.message = "Invalid or missing parameter: " \o nm
    /\ trace.stages = {}

\* C2: every value solve returns has status complete, error or
\* unimplemented; an error or unimplemented result has exactly the fields
\* status and message; a complete result has time, every trace of the
\* model's output mapping, freq, mag, phase, finalValue and zeros.
C2_ResultShape ==
  pc = "solved" =>
    /\ result.status \in {"complete", "error", "unimplemented"}
    /\ result.status \in {"error", "unimplemented"} =>
         DOMAIN result = {"status", "message"}
    /\ result.status = "complete" =>
         ({"time", "freq", "mag", "phase", "finalValue", "zeros"}
            \cup OutputTraces[circuit.solver]) \subseteq DOMAIN result

\* C2 case: a complete result and its traces are held.
C2_Witness ==
  /\ pc = "solved"
  /\ result.status = "complete"
  /\ circuit.solver = "solve3RlccSeries"
  /\ Len(result.Vc_total) = Points

\* C3: solve on a topology whose solver key has no registered model returns
\* status 'unimplemented', never 'error' or 'complete'.
C3_Unimplemented ==
  (pc = "solved" /\ circuit.solver \notin DOMAIN models) =>
    result.status = "unimplemented"

\* C3 case: an unregistered topology was submitted, with a parameter that
\* would not pass validation.
C3_Witness ==
  /\ pc = "solved"
  /\ circuit.solver \notin DOMAIN models
  /\ NotFiniteParams # {}
  /\ result.status = "unimplemented"

StrictlyIncreasing(seq) == \A i \in 1..(Len(seq) - 1) : Lt(seq[i], seq[i + 1])

\* C5: solveODE returns exactly `points` times starting at tStart and one
\* series per state variable, each of `points` entries starting at the
\* initial state; and in every complete result of solve the time grid is
\* strictly increasing and every trace is as long as the time grid.
C5_TimeGrid ==
  /\ pc = "integrated" =>
       /\ Len(result.time) = trace.points
       /\ result.time[1] = trace.tStart
       /\ DOMAIN result = {"time"} \cup {YName[j] : j \in DOMAIN trace.initialState}
       /\ \A j \in DOMAIN trace.initialState :
            /\ Len(result[YName[j]]) = trace.points
            /\ result[YName[j]][1] = trace.initialState[j]
  /\ (pc = "solved" /\ result.status = "complete") =>
       /\ StrictlyIncreasing(result.time)
       /\ \A nm \in OutputTraces[circuit.solver] :
            Len(result[nm]) = Len(result.time)

\* The verdict held for a series RLC: the analyzer's, or the one in a
\* complete result of the series RLC topology ("none" when it has none).
SeriesVerdict ==
  IF pc = "analyzed" THEN result.stabilityStatus.status
  ELSE IF result.stabilityStatus = Null THEN "none"
  ELSE result.stabilityStatus.status

SeriesCase ==
  \/ pc = "analyzed"
  \/ pc = "solved" /\ circuit.id = "2-rlc-series" /\ result.status = "complete"

SeriesR == IF pc = "analyzed" THEN params.R ELSE P(params, "R")
SeriesL == IF pc = "analyzed" THEN params.L ELSE P(params, "L")
SeriesC == IF pc = "analyzed" THEN params.C ELSE P(params, "C")

FinitePositive(v) == v.k = "fin" /\ Gt(v, Zero)

\* C6: for a series RLC with L > 0 and C > 0 the verdict is Stable for
\* every R > 0 and Marginally Stable at R = 0.
C6_StabilityMonotone ==
  (SeriesCase /\ FinitePositive(SeriesL) /\ FinitePositive(SeriesC)) =>
    /\ FinitePositive(SeriesR) => SeriesVerdict = "Stable"
    /\ SeriesR = Zero => SeriesVerdict = "Marginally Stable"

\* C7: an order-2 or order-3 topology simulated with finite parameters and a
\* non-positive equivalent L or C yields status complete, no poles, and a
\* stability verdict with status 'N/A'.
C7_IllPosedIsNA ==
  (/\ pc = "solved"
   /\ circuit.order \in {2, 3}
   /\ circuit.solver \in DOMAIN models
   /\ NotFiniteParams = {}
   /\ \/ Le(Equivalent(circuit, params).L, Zero)
      \/ Le(Equivalent(circuit, params).C, Zero)) =>
    /\ result.status = "complete"
    /\ result.poles \in {Null, Arr(<<>>)}
    /\ result.stabilityStatus # Null
    /\ result.stabilityStatus.status = "N/A"

\* Two poles that coincide (within the tolerance).
SamePole(p1, p2) ==
  /\ SAbsLtTol(SAdd(p1.re, SNeg(p2.re)))
  /\ SAbsLtTol(SAdd(p1.im, SNeg(p2.im)))

\* The verdict the decision procedure of C8 gives for a list of poles.
ProcedureVerdict(poles) ==
  IF \E i \in DOMAIN poles : SGtTol(poles[i].re) THEN "Unstable"
  ELSE IF \E i \in DOMAIN poles : SAbsLeTol(poles[i].re)
       THEN (IF \E i, j \in DOMAIN poles :
                  /\ i # j
                  /\ SAbsLeTol(poles[i].re)
                  /\ SamePole(poles[i], poles[j])
             THEN "Unstable"
             ELSE "Marginally Stable")
  ELSE "Stable"

\* C8: for L > 0 and C > 0 the analyzer's verdict is Unstable if a pole has
\* real part > 1e-9; otherwise, if a pole has |real part| <= 1e-9, Unstable
\* when that pole is repeated and Marginally Stable when it is simple;
\* otherwise Stable.  N/A is returned only when L or C is non-positive.
C8_VerdictProcedure ==
  pc = "analyzed" =>
    /\ (Gt(params.L, Zero) /\ Gt(params.C, Zero)) =>
         result.stabilityStatus.status = ProcedureVerdict(result.poles)
    /\ result.stabilityStatus.status = "N/A" =>
         (Le(params.L, Zero) \/ Le(params.C, Zero))

\* b^2 - 4c of the analyzer call held.
Discriminant ==
  LET b == Div(params.R, params.L)
      c == Div(One, Mul(params.L, params.C))
  IN  Sub(Mul(b, b), Mul(Int2Num(4), c))

AnalyzedWellPosed ==
  /\ pc = "analyzed"
  /\ Ge(params.R, Zero)
  /\ Gt(params.L, Zero)
  /\ Gt(params.C, Zero)

\* C9: for R >= 0, L > 0, C > 0 the analyzer returns exactly two poles with
\* p1 + p2 = -R/L and p1 * p2 = 1/(L*C) as complex numbers; they are a
\* conjugate pair when the discriminant is negative and both real otherwise.
C9_PoleSymmetry ==
  AnalyzedWellPosed =>
    /\ Len(result.poles) = 2
    /\ LET p1 == result.poles[1]
           p2 == result.poles[2]
       IN  /\ SAdd(p1.re, p2.re) = S(Neg(Div(params.R, params.L)))
           /\ SAdd(p1.im, p2.im) = S(Zero)
           /\ SAdd(SMul(p1.re, p2.re), SNeg(SMul(p1.im, p2.im)))
                = S(Div(One, Mul(params.L, params.C)))
           /\ SAdd(SMul(p1.re, p2.im), SMul(p1.im, p2.re)) = S(Zero)
           /\ IF Lt(Discriminant, Zero)
              THEN p1.re = p2.re /\ p2.im = SNeg(p1.im) /\ p1.im # S(Zero)
              ELSE p1.im = S(Zero) /\ p2.im = S(Zero)

\* C9 cases: a complex pair and two distinct irrational real poles.
C9_Witness ==
  /\ AnalyzedWellPosed
  /\ \/ Lt(Discriminant, Zero) /\ ~IsRational(result.poles[1].im)
     \/ Gt(Discriminant, Zero) /\ ~IsRational(result.poles[1].re)

\* C10: in every complete result, zeros is the single point (0,0) when the
\* topology's tag is the series-RLC Vr form or the parallel-RLC form and is
\* empty for every other tag, whatever the parameters and the poles.
C10_ZerosFromTag ==
  (pc = "solved" /\ result.status = "complete") =>
    result.zeros = IF circuit.transferFunction \in {TF_RLC_VR, TF_RLC_PAR}
                   THEN << Pole(S(Zero), S(Zero)) >>
                   ELSE <<>>

\* C10 case: a parallel RLC whose poles could not be computed still has its
\* zero at the origin.
C10_Witness ==
  /\ pc = "solved"
  /\ result.status = "complete"
  /\ circuit.transferFunction = TF_RLC_PAR
  /\ result.poles = Null
  /\ result.zeros = << Pole(S(Zero), S(Zero)) >>

\* The steady-state value the topology and waveform kind call for.
ExpectedFinalValue ==
  IF params.inputType # "Step" THEN Zero
  ELSE IF circuit.id \in {"1-rc-charge", "2-rlc-series", "3-rllc-series", "3-rlcc-series"}
  THEN P(params, "V")
  ELSE IF circuit.id = "1-rl-energize" THEN Div(P(params, "V"), P(params, "R"))
  ELSE IF circuit.id = "2-rlc-parallel" THEN Mul(P(params, "V"), P(params, "R"))
  ELSE Zero

\* C11: the finalValue of a complete result is V for RC charge, series RLC,
\* R-L-L-C and R-L-C-C under Step input, V/R for RL energize under Step
\* input with R > 0, V*R for parallel RLC under Step input, and 0 for every
\* Ramp or Sine input and for the discharge and de-energize topologies.
C11_FinalValue ==
  (/\ pc = "solved"
   /\ result.status = "complete"
   /\ ~(/\ circuit.id = "1-rl-energize"
        /\ params.inputType = "Step"
        /\ ~Gt(P(params, "R"), Zero))) =>
    result.finalValue = ExpectedFinalValue

\* C11 case: RL energize under Step input with V = 1 and R = 2 has
\* completed with finalValue 1/2.
C11_Witness ==
  /\ pc = "solved"
  /\ result.status = "complete"
  /\ circuit.id = "1-rl-energize"
  /\ params.inputType = "Step"
  /\ P(params, "R") = Int2Num(2)
  /\ result.finalValue = Fin(1, 2)

\* The closed forms solveFrequencyResponse implements.
ImplementedTags == {TF_RC, TF_RL, TF_RLC_VR, TF_RLC_PAR, TF_RLLC, TF_RLCC}

\* The topology of the call in progress, under the tag its definition declares.
DeclaredCircuit == CurrentCircuit(circuit.id)

\* C12: a call of solve that passes validation for a topology whose tag
\* matches no implemented closed form returns status complete with mag and
\* phase zero at every frequency of the full grid and logs a warning, and
\* its time grid, time-domain traces, poles and stability verdict equal
\* those of the same call under the topology's recognized tag.
C12_UnmatchedTag ==
  (/\ pc = "solved"
   /\ circuit.transferFunction \notin ImplementedTags
   /\ ~NoModel(circuit)
   /\ FirstInvalid(circuit, params) = "") =>
    /\ result.status = "complete"
    /\ Len(result.freq) = FreqPoints
    /\ DOMAIN result.mag = DOMAIN result.freq
    /\ DOMAIN result.phase = DOMAIN result.freq
    /\ \A i \in DOMAIN result.freq : result.mag[i] = Zero /\ result.phase[i] = Zero
    /\ Len(trace.log) > 0
    /\ \A ref \in {solve(DeclaredCircuit, params)} :
         /\ ref.status = "complete"
         /\ result.time = ref.time
         /\ \A nm \in OutputTraces[circuit.solver] : result[nm] = ref[nm]
         /\ result.poles = ref.poles
         /\ result.stabilityStatus = ref.stabilityStatus

\* C12 case: the series RLC under an unmatched tag has completed with
\* poles found, where its declared tag gives a sweep that is not all zero.
C12_Witness ==
  /\ pc = "solved"
  /\ circuit.transferFunction \notin ImplementedTags
  /\ result.status = "complete"
  /\ result.poles # Null
  /\ \E i \in DOMAIN result.freq : solve(DeclaredCircuit, params).mag[i] # Zero

\* log10 of a frequency: the exponent of a power of ten, NaN otherwise.
Log10Of(f) ==
  IF f.k = "pow10" THEN Fin(f.n, f.d)
  ELSE IF f.k = "fin" /\ f.d = 1 /\ \E e \in 0..9 : f.n = Pow10Int(e)
  THEN Int2Num(CHOOSE e \in 0..9 : f.n = Pow10Int(e))
  ELSE NaN

\* C13: the frequency vector of every sweep has exactly FreqPoints entries,
\* starts at fMin and ends at fMax, is strictly increasing, and the
\* difference log10(freq[i+1]) - log10(freq[i]) is
\* (log10(fMax) - log10(fMin)) / (FreqPoints - 1) for every i.
C13_FrequencyVector ==
  (pc = "solved" /\ result.status = "complete") =>
    /\ Len(result.freq) = FreqPoints
    /\ result.freq[1] = Int2Num(FMin)
    /\ result.freq[Len(result.freq)] = Int2Num(FMax)
    /\ \A i \in 1..(Len(result.freq) - 1) :
         /\ Lt(Log10Of(result.freq[i]), Log10Of(result.freq[i + 1]))
         /\ (result.freq[i].k = "fin" /\ result.freq[i + 1].k = "fin") =>
              Lt(result.freq[i], result.freq[i + 1])
         /\ Sub(Log10Of(result.freq[i + 1]), Log10Of(result.freq[i]))
              = Div(Sub(Log10Of(Int2Num(FMax)), Log10Of(Int2Num(FMin))),
                    Int2Num(FreqPoints - 1))

\* C13 case: a sweep has returned a grid with an entry strictly between
\* fMin and fMax.
C13_Witness ==
  /\ pc = "solved"
  /\ result.status = "complete"
  /\ \E i \in DOMAIN result.freq :
       /\ Lt(Log10Of(Int2Num(FMin)), Log10Of(result.freq[i]))
       /\ Lt(Log10Of(result.freq[i]), Log10Of(Int2Num(FMax)))

\* The trace names the plots of a topology list.
PlotTraces(id) ==
  UNION {{circuitDefinitions[id].plots[p][t] : t \in DOMAIN circuitDefinitions[id].plots[p]} :
           p \in DOMAIN circuitDefinitions[id].plots}

\* C17: for each defined topology, every trace name its plots list is a key
\* of its registered model's output mapping, and in a complete result each
\* such trace is an array with as many entries as the time grid.
C17_PlotTraces ==
  (/\ pc = "solved"
   /\ result.status = "complete"
   /\ circuit.id \in DOMAIN circuitDefinitions) =>
    \A nm \in PlotTraces(circuit.id) :
      /\ nm \in DOMAIN ModelMap(circuit.solver, trace.ode, params)
      /\ nm \in DOMAIN result
      /\ DOMAIN result[nm] = 1..Len(result.time)

\* C17 case: the parallel RLC, whose second plot lists three branch
\* currents, has completed with a derived trace over the whole time grid.
C17_Witness ==
  /\ pc = "solved"
  /\ result.status = "complete"
  /\ circuit.id = "2-rlc-parallel"
  /\ PlotTraces(circuit.id) = {"Vc", "iL", "iC", "iR"}
  /\ Len(result.iC) = Points
  /\ \A id \in DOMAIN circuitDefinitions : PlotTraces(id) # {}

(***************************************************************************)
(* Properties of the metrics calculator                                    *)
(***************************************************************************)
\* The call of calculateMetrics in progress asked for the metric m.
Requested(m) ==
  \E i \in DOMAIN params.requestedMetrics : params.requestedMetrics[i] = m

\* The trace of the call in progress holds numbers only (no NaN).
NumericTrace ==
  \A i \in DOMAIN params.signal : ToNumber(params.signal[i]).k = "fin"

\* The largest sample of the trace of the call in progress.
TraceMaximum ==
  params.signal[CHOOSE i \in DOMAIN params.signal :
                  \A h \in DOMAIN params.signal : Ge(params.signal[i], params.signal[h])]

\* |finalValue| <= 1e-6
FinalNearZero ==
  /\ Le(params.finalValue, Fin(1, 1000000))
  /\ Ge(params.finalValue, Fin(-1, 1000000))

\* C14: for a numeric trace, a reported overshoot is
\* (peak - final) / final * 100 with peak the trace maximum; it is strictly
\* positive whenever the trace maximum exceeds finalValue; no overshoot entry
\* is present when the trace never exceeds finalValue, nor when finalValue is
\* within 1e-6 of zero.
C14_Overshoot ==
  (/\ pc = "measured"
   /\ Requested("overshoot") \/ Requested("peakValue")
   /\ NumericTrace) =>
    /\ "overshoot" \in DOMAIN result =>
         /\ result.overshoot.value
              = Mul(Div(Sub(TraceMaximum, params.finalValue), params.finalValue),
                    Int2Num(100))
         /\ Gt(TraceMaximum, params.finalValue) => Gt(result.overshoot.value, Zero)
    /\ ~Gt(TraceMaximum, params.finalValue) => "overshoot" \notin DOMAIN result
    /\ FinalNearZero => "overshoot" \notin DOMAIN result

\* The sample v lies within [0.98 * final, 1.02 * final].
InBand(v) ==
  /\ Ge(v, Mul(params.finalValue, Fin(49, 50)))
  /\ Le(v, Mul(params.finalValue, Fin(51, 50)))

\* C15: for a numeric trace and any finalValue, the reported settlingTime
\* is a grid time t_s such that every sample at a time >= t_s lies within
\* [0.98 * final, 1.02 * final] and the sample immediately before t_s, if
\* there is one, lies outside that band; it is time[0] when every sample
\* lies within the band.
C15_SettlingTime ==
  (/\ pc = "measured"
   /\ Requested("settlingTime")
   /\ NumericTrace) =>
    /\ "settlingTime" \in DOMAIN result
    /\ \E k \in DOMAIN params.time :
         /\ result.settlingTime.value = params.time[k]
         /\ \A i \in DOMAIN params.signal : i >= k => InBand(params.signal[i])
         /\ k > 1 => ~InBand(params.signal[k - 1])
    /\ (\A i \in DOMAIN params.signal : InBand(params.signal[i])) =>
         result.settlingTime.value = params.time[1]

\* The indices i >= 1 (counted from 0) at which the trace goes from strictly
\* below level * final to at or above it, or from strictly above to at or
\* below it.
CrossingsOf(level) ==
  {i \in DOMAIN params.signal :
     /\ i > 1
     /\ \/ /\ Lt(params.signal[i - 1], Mul(level, params.finalValue))
            /\ ~Lt(params.signal[i], Mul(level, params.finalValue))
            /\ ToNumber(params.signal[i]).k # "nan"
        \/ /\ Gt(params.signal[i - 1], Mul(level, params.finalValue))
            /\ ~Gt(params.signal[i], Mul(level, params.finalValue))
            /\ ToNumber(params.signal[i]).k # "nan"}

\* The time at the first crossing of level * final.
FirstCrossingTime(level) ==
  params.time[CHOOSE i \in CrossingsOf(level) : \A h \in CrossingsOf(level) : i <= h]

\* C16: when riseTime is requested, it is reported exactly when the trace
\* crosses both 10% and 90% of finalValue, and then equals t90 - t10, each
\* the time at the first index at which the trace goes from strictly below
\* the level to at or above it or from strictly above to at or below it.
C16_RiseTime ==
  (pc = "measured" /\ Requested("riseTime")) =>
    IF CrossingsOf(Fin(1, 10)) # {} /\ CrossingsOf(Fin(9, 10)) # {}
    THEN /\ "riseTime" \in DOMAIN result
         /\ result.riseTime.value
              = Sub(FirstCrossingTime(Fin(9, 10)), FirstCrossingTime(Fin(1, 10)))
    ELSE "riseTime" \notin DOMAIN result

\* C16 case: a trace that falls through 90% and then 10% of finalValue has
\* been measured; t90 - t10 is one grid step, negative.
C16_Witness ==
  /\ pc = "measured"
  /\ Requested("riseTime")
  /\ "riseTime" \in DOMAIN result
  /\ Len(params.signal) = 3
  /\ Gt(params.signal[1], params.signal[2])
  /\ Gt(params.signal[2], params.signal[3])
  /\ result.riseTime.value = Int2Num(-1)

\* The state vector of sample i of an integrator result.
SampleState(i) ==
  [j \in DOMAIN trace.initialState |-> result[YName[j]][i]]

\* The classical Runge-Kutta step of size h from (t, y) for the derivative
\* function of the call in progress.
ClassicalStep(t, y, h) ==
  LET f(tt, yy) == CallOde(models[circuit.solver].func, tt, yy, params)
      advanced(k, s) == [j \in DOMAIN y |-> Add(y[j], Mul(k[j], s))]
      k1 == f(t, y)
      k2 == f(Add(t, Div(h, Int2Num(2))), advanced(k1, Div(h, Int2Num(2))))
      k3 == f(Add(t, Div(h, Int2Num(2))), advanced(k2, Div(h, Int2Num(2))))
      k4 == f(Add(t, h), advanced(k3, h))
  IN  [j \in DOMAIN y |->
         Add(y[j], Mul(Div(h, Int2Num(6)),
                       Add(Add(Add(k1[j], Mul(Int2Num(2), k2[j])),
                               Mul(Int2Num(2), k3[j])), k4[j])))]

\* 0.6321 < 1 - 1/e < 0.6322, so a value v with 0.6316*V <= v <= 0.6327*V is
\* within 1e-3 relative error of V*(1 - 1/e):
\* 0.999 * 0.6322 < 0.6316 and 0.6327 < 1.001 * 0.6321.
NearOneTimeConstant(v, V) ==
  /\ Ge(v, Mul(V, Fin(1579, 2500)))
  /\ Le(v, Mul(V, Fin(6327, 10000)))

LacksTimeBase ==
  \/ ~IsFinite(P(params, "tEnd"))
  \/ params.inputType = "Sine" /\ ~IsFinite(P(params, "Freq"))

\* C19: whatever the topology, solve answers a ParameterSet that lacks a
\* finite tEnd, or for the Sine input a finite Freq, with status 'error';
\* no such ParameterSet gives status 'complete'.
C19_TimeBaseRequired ==
  (pc = "solved" /\ ~NoModel(circuit) /\ LacksTimeBase) => result.status = "error"

(***************************************************************************)
(* Properties of the App component                                         *)
(***************************************************************************)
\* C18: after any sequence of UI actions (changing topology, changing the
\* input type, editing parameters, loading a configuration, running
\* simulations) every topology definition, its declared default parameter
\* values included, is what the topology table declared.
C18_DefinitionsImmutable == definitions = circuitDefinitions

\* Two Surds, each rational or a pure root q*sqrt(x), are the same number:
\* same sign and same square.
SameSurdValue(s, u) ==
  /\ s.p.k = "fin" /\ u.p.k = "fin"
  /\ SSign(s) = SSign(u)
  /\ Add(Mul(s.p, s.p), Mul(Mul(s.q, s.q), s.x))
       = Add(Mul(u.p, u.p), Mul(Mul(u.q, u.q), u.x))

\* C22: for the parallel RLC topology with finite R, L, C > 0 the natural
\* frequency reported is w0/(2*pi) with w0 = 1/sqrt(L*C), as in the series
\* form, the damping ratio reported is alpha/w0 with alpha = 1/(2*R*C), and
\* the label is the one of that damping ratio.
C22_ParallelDamping ==
  (/\ pc = "solved"
   /\ circuit.id = "2-rlc-parallel"
   /\ result.status = "complete"
   /\ FinitePositive(P(params, "R"))
   /\ FinitePositive(P(params, "L"))
   /\ FinitePositive(P(params, "C")))
  => LET R == P(params, "R")
         L == P(params, "L")
         C == P(params, "C")
         w0 == NumDivS(One, Sqrt(Mul(L, C)))
         alpha == Div(One, Mul(Int2Num(2), Mul(R, C)))
     IN  /\ result.analysis.kind = "Damping Ratio / Natural Freq"
         /\ SameSurdValue(result.analysis.omega0, w0)
         /\ SameSurdValue(result.analysis.zeta, NumDivS(alpha, w0))
         /\ result.analysis.label = DampingLabel(NumDivS(alpha, w0))

\* The frequency response of 1/(s^2*L*C + s*R*C + 1) for the L and R of the
\* call in progress and the equivalent capacitance the router computes.
ResponseAtRouterCeq ==
  solveFrequencyResponse(
    CurrentCircuit("3-rllc-series"),
    [params EXCEPT !.num["L1"] = P(params, "L"), !.num["L2"] = Zero,
                   !.num["C"] = Equivalent(circuit, params).C])

\* C23: for the R-L-C1-C2 topology the frequency-response evaluator, the
\* pole analysis and the transfer-function string use the same C_eq for
\* the same C1 and C2 (the response is the one at the router's C_eq), and
\* with C1 + C2 = 0 no NaN reaches mag, phase, poles or the
\* transfer-function string.
C23_EquivalentCapacitance ==
  (pc = "solved" /\ circuit.id = "3-rlcc-series" /\ result.status = "complete") =>
    /\ result.mag = ResponseAtRouterCeq.mag
    /\ result.phase = ResponseAtRouterCeq.phase
    /\ NumEq(Add(P(params, "C1"), P(params, "C2")), Zero) =>
         /\ \A i \in DOMAIN result.mag : result.mag[i] # NaN /\ result.phase[i] # NaN
         /\ result.poles # Null =>
              \A i \in DOMAIN result.poles.items :
                ~isNaN(result.poles.items[i].re.p) /\ ~isNaN(result.poles.items[i].im.p)
         /\ ~isNaN(result.tfString.a.of) /\ ~isNaN(result.tfString.b.of)

\* The ParameterSet of the call in progress with its excitation and its
\* integration span replaced: the source values the topology requires set
\* to 1, a Step input, Freq = 1/4 and tEnd the span of the base set.
ReferenceExcitation ==
  [num |-> [nm \in ParamNames |->
              IF nm \in {"V", "V0", "I0"}
                 /\ \E i \in DOMAIN circuit.params : circuit.params[i] = nm
              THEN One
              ELSE IF nm = "tEnd" THEN Int2Num(2 * (Points - 1))
              ELSE IF nm = "Freq" THEN Fin(1, 4)
              ELSE P(params, nm)],
   inputType |-> "Step"]

\* C24: the frequency sweep and the pole/zero analysis do not depend on the
\* excitation or the integration: a completed call of solve returns the
\* freq, mag, phase, poles, zeros and stability verdict of the call on the
\* same topology and components with the reference excitation (so any two
\* calls that differ only in V, V0, I0, inputType, Freq or tEnd agree).
C24_ExcitationIndependence ==
  (pc = "solved" /\ result.status = "complete") =>
    \E ref \in {solve(circuit, ReferenceExcitation)} :
      /\ ref.status = "complete"
      /\ result.freq = ref.freq
      /\ result.mag = ref.mag
      /\ result.phase = ref.phase
      /\ result.poles = ref.poles
      /\ result.zeros = ref.zeros
      /\ result.stabilityStatus = ref.stabilityStatus

\* A completed Sine run of the series RLC with an edited amplitude.
C24_Witness ==
  /\ pc = "solved"
  /\ result.status = "complete"
  /\ circuit.id = "2-rlc-series"
  /\ params.inputType = "Sine"
  /\ P(params, "V") = Int2Num(2)
  /\ result.poles # Null
  /\ params # ReferenceExcitation

(***************************************************************************)
(* Properties of the root-locus generator                                  *)
(***************************************************************************)
\* The equivalent L or C of sample i of the sweep in progress is not positive.
DegenerateSample(i) ==
  LET e == Equivalent(circuit,
                      [params EXCEPT !.num[trace.vary] =
                         SweepValue(trace.min, trace.max, trace.sampleCount, i)])
  IN  ~Gt(e.L, Zero) \/ ~Gt(e.C, Zero)

\* C21: a locus of an order-2 or order-3 topology with sample count N has
\* exactly 2 branches of exactly N points each, in sweep order (the first
\* point is the pole at the swept parameter's min, the last at its max, and
\* point i that at sample i), with a placeholder point at every sample where
\* L or C is not positive.
C21_LocusShape ==
  pc = "swept" =>
    /\ DOMAIN result.traces = 1..2
    /\ \A b \in 1..2 :
         /\ DOMAIN result.traces[b] = 1..trace.sampleCount
         /\ \A i \in 1..trace.sampleCount :
              IF DegenerateSample(i)
              THEN result.traces[b][i] = PlaceholderPoint
              ELSE LET e == Equivalent(circuit,
                              [params EXCEPT !.num[trace.vary] =
                                 IF i = 1 THEN trace.min
                                 ELSE IF i = trace.sampleCount THEN trace.max
                                 ELSE SweepValue(trace.min, trace.max,
                                                 trace.sampleCount, i)])
                   IN  result.traces[b][i] =
                         QuadraticRoots(Div(e.R, e.L), Div(One, Mul(e.L, e.C)))[b]

\* A sweep of L from -1 to 3 over three samples: a placeholder, then poles.
C21_Witness ==
  /\ pc = "swept"
  /\ circuit.id = "2-rlc-series"
  /\ trace.vary = "L" /\ trace.min = Int2Num(-1) /\ trace.max = Int2Num(3)
  /\ trace.sampleCount = 3
  /\ result.traces[1][1] = PlaceholderPoint
  /\ result.traces[1][2] # PlaceholderPoint
  /\ result.traces[2][3] # PlaceholderPoint

\* The names the topology selected in the App requires.
RequiredNames ==
  {definitions[app.circuitId].params[i] : i \in DOMAIN definitions[app.circuitId].params}

\* C25: a required parameter whose entry in the control panel (typed or
\* loaded) is not a number is not replaced by a default: a Run click hands
\* solve an invalid value for it, and solve answers with the validation
\* error that names such a parameter.
C25_NoSilentDefault ==
  [][(RunSimulation /\ entered \cap RequiredNames # {}) =>
       \E run \in {timers'[Len(timers')]} :
         /\ \A nm \in entered \cap RequiredNames :
              P(run.params, nm) = Undefined \/ isNaN(P(run.params, nm))
         /\ \E nm \in entered \cap RequiredNames :
              SolveOutcome(run.circuit, run.params) = ValidationError(nm)]_vars

(***************************************************************************)
(* Properties of the parameters the integration reads                      *)
(***************************************************************************)
\* The parameter set of the solve call passes validation with finite
\* positive required parameters, a finite positive tEnd and a finite Freq.
WellFormedRun ==
  /\ pc = "solved"
  /\ result.status = "complete"
  /\ \A i \in DOMAIN circuit.params : FinitePositive(P(params, circuit.params[i]))
  /\ FinitePositive(P(params, "tEnd"))
  /\ P(params, "Freq") # Undefined /\ IsFinite(P(params, "Freq"))

\* C26: a parameter set that passes validation feeds no undefined value into
\* the integration: the source value is defined at every sample time and
\* every sample of the integrated state is defined; in particular the
\* RC-discharge and RL-de-energize topologies integrate with a zero source
\* and return defined Vc / iL samples at every time step.
C26_DefinedSamples ==
  WellFormedRun =>
    /\ \A i \in DOMAIN result.time :
         /\ ~isNaN(getVin(result.time[i], params))
         /\ ~isNaN(trace.ode.y0[i])
    /\ circuit.solver = "solveRcDischarge" =>
         \A i \in DOMAIN result.time :
           getVin(result.time[i], params) = Zero /\ ~isNaN(result.Vc[i])
    /\ circuit.solver = "solveRlDeEnergize" =>
         \A i \in DOMAIN result.time :
           getVin(result.time[i], params) = Zero /\ ~isNaN(result.iL[i])

(***************************************************************************)
(* Properties of the simulation status held by the App                     *)
(***************************************************************************)
\* C27: under every interleaving of the handlers and the deferred solve
\* callback, a result held for display (simStatus 'complete') was computed
\* for the circuit that is currently selected.
C27_ResultOfSelectedCircuit ==
  app.simStatus = "complete" => app.simResult.circuitId = app.circuitId

(***************************************************************************)
(* Properties of the primary trace of the metric displays                  *)
(***************************************************************************)
\* C28: for every topology that declares performance metrics, the primary
\* trace chosen by the analysis display and by the report generator is a
\* trace name the topology's model produces, so for a complete result
\* calculateMetrics is handed a trace of the result and returns a metric set
\* that is not empty.
C28_PrimaryTraceProduced ==
  (/\ pc = "solved"
   /\ result.status = "complete"
   /\ circuit.id \in DOMAIN circuitDefinitions
   /\ Len(circuitDefinitions[circuit.id].metrics) > 0) =>
    \A primaryTrace \in {AnalysisPrimaryTrace(circuit), ReportPrimaryTrace(circuit)} :
      /\ primaryTrace \in OutputTraces[circuit.solver]
      /\ primaryTrace \in DOMAIN result
      /\ TransientMetrics(circuitDefinitions[circuit.id], result, primaryTrace) # NoMetrics

\* C29: after any sequence of UI events simStatus is one of ready, running,
\* complete and error, a result is held exactly when simStatus is
\* 'complete', and an error message is held exactly when it is 'error'.
C29_StatusConsistent ==
  /\ app.simStatus \in {"ready", "running", "complete", "error"}
  /\ app.simResult # Null <=> app.simStatus = "complete"
  /\ app.simError # Null <=> app.simStatus = "error"

\* C30: every Run click is eventually followed by simStatus 'complete' or
\* 'error' (simStatus never stays 'running' forever); a click sets exactly
\* one timer, every timer fires, and a firing callback takes exactly one
\* timer away and sets one of the two statuses; and the Run button starts no
\* run while simStatus is 'running'.
C30_RunCompletes ==
  /\ (app.simStatus = "running") ~> (app.simStatus \in {"complete", "error"})
  /\ <>[](timers = << >>)
  /\ [][RunSimulation =>
          app.simStatus # "running" /\ Len(timers') = Len(timers) + 1]_vars
  /\ [][SimulationCallback =>
          /\ Len(timers') = Len(timers) - 1
          /\ app'.simStatus \in {"complete", "error"}]_vars

\* A Run click on a parameter set that fails validation, after its callback.
C30_Witness ==
  /\ app.simStatus = "error"
  /\ timers = << >>
  /\ events > 0

====
